---- MODULE Spec2Model ----
(***************************************************************************)
(* Rolling audio capture and snapshot subsystem of audiobook-explainer     *)
(* (services/audioService.js, the revision with manageBuffer and the       *)
(* diagnostic log).  The module state of the service is the state of the   *)
(* model; every exported function, timer callback and MediaRecorder event  *)
(* handler is one action.  The MediaRecorder itself is the environment: a  *)
(* recorder is an object with a state ("recording" / "inactive"), a queued *)
(* start event and a queued stop task (final dataavailable, then stop).    *)
(* Scheduling is single-threaded: an action is one task of the event loop  *)
(* together with the microtasks (promise continuations) it leaves behind.  *)
(***************************************************************************)
EXTENDS Integers, Sequences, FiniteSets, TLC

(***************************************************************************)
(* Program constants                                                       *)
(***************************************************************************)
WINDOW_MS == 10000

IOS_CHUNK_MS == 500

DESKTOP_CHUNK_MS == 1000

RECORDED_MAX == 1000

RECORDED_KEEP == 500

IOS_BLOB_LIMIT == 25 * 1024 * 1024

MAX_LOG_ENTRIES == 1000

(***************************************************************************)
(* Bounds of the model                                                     *)
(***************************************************************************)
\* Spec: sessions opened, snapshot requests accepted, chunks produced
MaxOpens == 1

MaxRequests == 1

MaxChunks == 2

\* SpecBuf: chunks produced, and the clock reading after which no timeslice
\* is explored
MaxBufChunks == 11

MaxBufTime == 12000

\* SpecLong: chunks produced
MaxLongChunks == 1001

\* SpecReopen: sessions opened, snapshot requests accepted, chunks produced
MaxReOpens == 2

MaxReRequests == 1

MaxReChunks == 1

\* SpecLog: logDebug calls
MaxLogCalls == 1001

\* SpecClock: chunks produced, the step (ms) by which the clock is set back
MaxClockChunks == 6

SetBackMs == 1000

\* SpecWin: chunks produced
MaxWinChunks == 12

\* SpecLive: snapshot requests accepted, chunks produced
MaxLiveRequests == 1

MaxLiveChunks == 2

\* SpecRace: sessions opened, snapshot requests accepted, chunks produced
MaxRaceOpens == 3

MaxRaceRequests == 4

MaxRaceChunks == 3

\* SpecEmpty: non-empty chunks produced, and the clock reading after which no
\* data callback is explored
MaxEmptyChunks == 2

MaxEmptyTime == 11000

\* SpecSessionLog: sessions opened, chunks produced
MaxSessionLogOpens == 2

MaxSessionLogChunks == 1

\* SpecPlay: sessions opened, the clock at the start, the last clock reading
\* explored and the step of the clock (ms)
MaxPlayOpens == 2

StartMs == 1000

MaxPlayTime == 3000

TickMs == 500

\* SpecWav: samples of a decoded channel, and the denominator of a sample
MaxSamples == 2

SampleDen == 1000

\* a chunk of SmallChunk bytes, and one so large that two exceed the limit
SmallChunk == 1000

BigChunk == 14000000

\* a pause of the capturer longer than the window, and one just inside it
GapMs == 10001

LongStepMs == 9000

\* the clock may advance by this much between two readings in one handler
MaxDrift == 1

(***************************************************************************)
(* Container / codec identifiers and String.includes on them               *)
(***************************************************************************)
iosMimeTypes == << "audio/mp4", "audio/mp4; codecs=\"mp4a.40.2\"", "video/mp4" >>

desktopMimeTypes == << "audio/webm; codecs=opus", "audio/webm", "audio/ogg; codecs=opus" >>

NoMime == "null"

\* audioStartTime = null
NoTime == -1

\* the candidate lists of the revision that still re-encodes to WAV
iosMimeTypes_006 ==
    << "audio/mp4", "audio/mp4; codecs=\"mp4a.40.2\"", "audio/mp4; codecs=\"mp4a.40.5\"",
       "video/mp4", "video/mp4; codecs=\"avc1.42E01E, mp4a.40.2\"" >>

desktopMimeTypes_006 ==
    << "audio/webm; codecs=opus", "audio/webm", "audio/ogg; codecs=opus", "audio/ogg",
       "audio/mp4", "audio/wav" >>

\* mimeType.includes(sub) for the identifiers above
Includes(mimeType, sub) ==
    CASE sub = "mp4"  -> mimeType \in {"audio/mp4", "audio/mp4; codecs=\"mp4a.40.2\"", "video/mp4",
                                       "audio/mp4; codecs=\"mp4a.40.5\"",
                                       "video/mp4; codecs=\"avc1.42E01E, mp4a.40.2\"",
                                       "video/mp4; codecs=\"avc1.42e01e, mp4a.40.2\""}
      [] sub = "webm" -> mimeType \in {"audio/webm; codecs=opus", "audio/webm"}
      [] sub = "ogg"  -> mimeType \in {"audio/ogg; codecs=opus", "audio/ogg"}
      [] sub = "wav"  -> mimeType \in {"audio/wav"}
      [] OTHER        -> FALSE

\* the type of new Blob(parts, { type }): the Blob constructor converts the
\* type to ASCII lowercase; of the identifiers above one has capitals
BlobType(type) ==
    IF type = "video/mp4; codecs=\"avc1.42E01E, mp4a.40.2\""
    THEN "video/mp4; codecs=\"avc1.42e01e, mp4a.40.2\""
    ELSE type

\* a walk that returns the last supported candidate of list
FirstSupported_last(list, sup, i) ==
    LET hits == {j \in i..Len(list) : list[j] \in sup}
    IN  IF hits = {} THEN NoMime
        ELSE list[CHOOSE j \in hits : \A k \in hits : k <= j]

\* the first candidate of list the platform supports, from index i on
RECURSIVE FirstSupported(_, _, _)
FirstSupported(list, sup, i) ==
    IF i > Len(list) THEN NoMime
    ELSE IF list[i] \in sup THEN list[i]
    ELSE FirstSupported(list, sup, i + 1)

\* a detection that falls back to the head of the list when nothing is supported
getBestSupportedMimeType_fallback(ios, sup) ==
    LET list == IF ios THEN iosMimeTypes ELSE desktopMimeTypes
    IN  IF FirstSupported(list, sup, 1) = NoMime THEN list[1]
        ELSE FirstSupported(list, sup, 1)

getBestSupportedMimeType(ios, sup) ==
    FirstSupported(IF ios THEN iosMimeTypes ELSE desktopMimeTypes, sup, 1)

\* what MediaRecorder.isTypeSupported answers on the platforms explored
SupportChoices ==
    { {"audio/webm; codecs=opus", "audio/webm"},
      {"audio/ogg; codecs=opus"},
      {"audio/mp4", "video/mp4"} }

(***************************************************************************)
(* Sequences                                                               *)
(***************************************************************************)
RECURSIVE SumSizes(_)
SumSizes(s) == IF s = << >> THEN 0 ELSE Head(s).size + SumSizes(Tail(s))

MapData(buffer) == [i \in 1..Len(buffer) |-> buffer[i].data]

Last(s) == s[Len(s)]

DropHead(s, n) == SubSeq(s, n + 1, Len(s))

Ids(s) == [i \in 1..Len(s) |-> s[i].id]

\* a filter that also drops the chunk aged exactly WINDOW_MS
FilterWindow_strict(buffer, currentTime) ==
    SelectSeq(buffer, LAMBDA chunk : chunk.timestamp > currentTime - WINDOW_MS)

(***************************************************************************)
(* Rolling buffer (manageBuffer, the data callback)                        *)
(***************************************************************************)
\* lastTenSecondsBuffer.filter(chunk => chunk.timestamp >= tenSecondsAgo)
FilterWindow(buffer, currentTime) ==
    SelectSeq(buffer, LAMBDA chunk : chunk.timestamp >= currentTime - WINDOW_MS)

\* a manageBuffer without the count cap
CapCount_uncapped(buffer, maxCount) == buffer

\* if (length > maxChunksFor10Seconds) splice(0, length - maxChunksFor10Seconds)
CapCount(buffer, maxCount) ==
    IF Len(buffer) > maxCount THEN DropHead(buffer, Len(buffer) - maxCount) ELSE buffer

\* manageBuffer(): the buffer it leaves, currentTime being its Date.now()
manageBuffer(buffer, currentTime, maxCount) ==
    CapCount(FilterWindow(buffer, currentTime), maxCount)

\* a trim that cuts the list down to its capacity
TrimRecorded_toMax(chunks) ==
    IF Len(chunks) > RECORDED_MAX THEN DropHead(chunks, Len(chunks) - RECORDED_MAX)
    ELSE chunks

\* if (recordedChunks.length > 1000) recordedChunks.splice(0, length - 500)
TrimRecorded(chunks) ==
    IF Len(chunks) > RECORDED_MAX THEN DropHead(chunks, Len(chunks) - RECORDED_KEEP)
    ELSE chunks

\* a data callback without the size check
ondataavailable_unguarded(st, blob, t1, t2, maxCount) ==
    [ recordedChunks |-> TrimRecorded(Append(st.recordedChunks, blob)),
      lastTenSecondsBuffer |->
          manageBuffer(Append(st.lastTenSecondsBuffer,
                              [timestamp |-> t1, data |-> blob, size |-> blob.size]),
                       t2, maxCount) ]

\* mediaRecorder.ondataavailable: blob is event.data, t1 the push's Date.now(),
\* t2 manageBuffer's.  st is [recordedChunks, lastTenSecondsBuffer].
ondataavailable(st, blob, t1, t2, maxCount) ==
    IF blob.size > 0
    THEN [ recordedChunks |-> TrimRecorded(Append(st.recordedChunks, blob)),
           lastTenSecondsBuffer |->
               manageBuffer(Append(st.lastTenSecondsBuffer,
                                   [timestamp |-> t1, data |-> blob, size |-> blob.size]),
                            t2, maxCount) ]
    ELSE st

(***************************************************************************)
(* Container repair (createProperAudioFile, processAudio)                  *)
(***************************************************************************)
\* a repair that prepends the header without filtering it out of the chunks
WithHeader_unfiltered(headerChunk, chunks) == << headerChunk >> \o chunks

\* [headerChunk, ...chunks.filter(chunk => chunk !== headerChunk)]
WithHeader(headerChunk, chunks) ==
    << headerChunk >> \o SelectSeq(chunks, LAMBDA chunk : chunk # headerChunk)

\* the chunk list of the Blob createProperAudioFile returns
createProperAudioFile(chunks, allChunks, mimeType, ios) ==
    IF ios /\ Includes(mimeType, "mp4") /\ Len(allChunks) > 0
    THEN WithHeader(allChunks[1], chunks)
    ELSE IF Includes(mimeType, "webm") /\ Len(allChunks) > 0
    THEN WithHeader(allChunks[1], chunks)
    ELSE chunks

\* a selection that knows no platform (as the oldest revision's): the
\* header-preserving blob for WebM only, else the blob convertToWav returns on
\* any platform, else the chunks as they are
createProperAudioFile_oldest(chunks, allChunks, mimeType, ios, wav) ==
    IF Includes(mimeType, "webm") /\ Len(allChunks) > 0
    THEN [strategy |-> "header", blob |-> WithHeader(allChunks[1], chunks),
          type |-> BlobType(mimeType)]
    ELSE IF wav = "blob"
    THEN [strategy |-> "wav", blob |-> << [id |-> 0, size |-> 44, rec |-> 0] >>,
          type |-> "audio/wav"]
    ELSE [strategy |-> "fallback", blob |-> chunks, type |-> BlobType(mimeType)]

\* createProperAudioFile of the revision that still re-encodes to WAV: the
\* header-preserving blob, else (off iOS) the blob convertToWav returns, else
\* the chunks as they are.  wav is what convertToWav does: "blob", "null" (the
\* data does not decode) or "throws".
createProperAudioFileWithWav(chunks, allChunks, mimeType, ios, wav) ==
    IF ios /\ Includes(mimeType, "mp4") /\ Len(allChunks) > 0
    THEN [strategy |-> "header", blob |-> WithHeader(allChunks[1], chunks),
          type |-> BlobType(mimeType)]
    ELSE IF Includes(mimeType, "webm") /\ Len(allChunks) > 0
    THEN [strategy |-> "header", blob |-> WithHeader(allChunks[1], chunks),
          type |-> BlobType(mimeType)]
    ELSE IF ~ios /\ wav = "blob"
    THEN [strategy |-> "wav", blob |-> << [id |-> 0, size |-> 44, rec |-> 0] >>,
          type |-> "audio/wav"]
    ELSE [strategy |-> "fallback", blob |-> chunks, type |-> BlobType(mimeType)]

\* processAudio of that revision: properAudioBlob.type || mimeType
resultMimeType(properAudioBlob, mimeType) ==
    IF properAudioBlob.type # "" THEN properAudioBlob.type ELSE mimeType

\* an extension chosen by the platform alone
getFileExtensionFromMimeType_platform(mimeType, ios) == IF ios THEN "mp4" ELSE "webm"

getFileExtensionFromMimeType(mimeType, ios) ==
    IF Includes(mimeType, "mp4") THEN "mp4"
    ELSE IF Includes(mimeType, "webm") THEN "webm"
    ELSE IF Includes(mimeType, "ogg") THEN "ogg"
    ELSE IF Includes(mimeType, "mp3") \/ Includes(mimeType, "mpeg") THEN "mp3"
    ELSE IF Includes(mimeType, "wav") THEN "wav"
    ELSE IF ios THEN "mp4" ELSE "webm"

\* a processAudio that does not validate the size of the blob it created
processAudio_unvalidated(buffer, chunks, mimeType, ios) ==
    LET processedChunks == MapData(buffer)
        blob == createProperAudioFile(processedChunks, chunks, mimeType, ios)
    IN  IF Len(processedChunks) = 0
        THEN [ok |-> FALSE, error |-> "No audio chunks to process", used |-> << >>,
              blob |-> << >>, size |-> 0, mimeType |-> mimeType, ext |-> "", filename |-> ""]
        ELSE [ok |-> TRUE, error |-> "", used |-> processedChunks,
              blob |-> blob, size |-> SumSizes(blob), mimeType |-> mimeType,
              ext |-> getFileExtensionFromMimeType(mimeType, ios),
              filename |-> "audio." \o getFileExtensionFromMimeType(mimeType, ios)]

\* processAudio(buffer, chunks, mimeType): the result it resolves with, or the
\* error it throws
processAudio(buffer, chunks, mimeType, ios) ==
    LET processedChunks == MapData(buffer)
        blob == createProperAudioFile(processedChunks, chunks, mimeType, ios)
        size == SumSizes(blob)
        type == resultMimeType([type |-> BlobType(mimeType)], mimeType)
    IN  IF Len(processedChunks) = 0
        THEN [ok |-> FALSE, error |-> "No audio chunks to process", used |-> << >>,
              blob |-> << >>, size |-> 0, mimeType |-> mimeType, ext |-> "", filename |-> ""]
        ELSE IF size = 0
        THEN [ok |-> FALSE, error |-> "Created audio blob is empty", used |-> processedChunks,
              blob |-> blob, size |-> size, mimeType |-> mimeType, ext |-> "", filename |-> ""]
        ELSE IF ios /\ size > IOS_BLOB_LIMIT
        THEN [ok |-> FALSE, error |-> "Audio blob too large for iOS", used |-> processedChunks,
              blob |-> blob, size |-> size, mimeType |-> mimeType, ext |-> "", filename |-> ""]
        ELSE [ok |-> TRUE, error |-> "", used |-> processedChunks,
              blob |-> blob, size |-> size, mimeType |-> type,
              ext |-> getFileExtensionFromMimeType(type, ios),
              filename |-> "audio." \o getFileExtensionFromMimeType(type, ios)]

(***************************************************************************)
(* PCM re-encode (convertToWav, createWavHeader of the revision that       *)
(* re-encodes).  An ArrayBuffer is a sequence of bytes, the byte at offset *)
(* o being element o + 1.  A sample is a numerator over SampleDen.         *)
(***************************************************************************)
\* new ArrayBuffer(length)
ArrayBuffer(length) == [i \in 1..length |-> 0]

\* the bytes of value, most significant first
BigEndian(value, bytes) == [k \in 1..bytes |-> (value \div 256 ^ (bytes - k)) % 256]

\* the bytes DataView.setUintN(offset, value, true) writes, N = 8 * bytes: the
\* value modulo 2^N, least significant byte first
LittleEndian(value, bytes) == [k \in 1..bytes |-> (value \div 256 ^ (k - 1)) % 256]

\* the buffer after data is written from byteOffset on
WriteBytes(buffer, byteOffset, data) ==
    [i \in 1..Len(buffer) |->
        IF i > byteOffset /\ i <= byteOffset + Len(data) THEN data[i - byteOffset]
        ELSE buffer[i]]

setUint32(buffer, byteOffset, value) == WriteBytes(buffer, byteOffset, LittleEndian(value, 4))

setUint16(buffer, byteOffset, value) == WriteBytes(buffer, byteOffset, LittleEndian(value, 2))

\* view.setInt16(offset, value, true): the value is truncated to an integer by
\* the caller's Trunc, taken modulo 2^16 and stored in two's complement
setInt16(buffer, byteOffset, value) ==
    WriteBytes(buffer, byteOffset, LittleEndian(value % 65536, 2))

\* writeString(view, offset, string), string given by its character codes
writeString(buffer, byteOffset, string) == WriteBytes(buffer, byteOffset, string)

\* view.getUint32(offset, true), getUint16(offset, true), getInt16(offset, true)
getUint32(buffer, byteOffset) ==
    buffer[byteOffset + 1] + 256 * buffer[byteOffset + 2] + 65536 * buffer[byteOffset + 3]
        + 16777216 * buffer[byteOffset + 4]

getUint16(buffer, byteOffset) == buffer[byteOffset + 1] + 256 * buffer[byteOffset + 2]

getInt16(buffer, byteOffset) ==
    IF getUint16(buffer, byteOffset) >= 32768 THEN getUint16(buffer, byteOffset) - 65536
    ELSE getUint16(buffer, byteOffset)

\* 'RIFF', 'WAVE', 'fmt ', 'data'
RIFF == << 82, 73, 70, 70 >>

WAVE == << 87, 65, 86, 69 >>

FMT == << 102, 109, 116, 32 >>

DATA == << 100, 97, 116, 97 >>

createWavHeader(numSamples, sampleRate, numChannels, bitsPerSample) ==
    LET dataSize == (numSamples * numChannels * bitsPerSample) \div 8
        b0 == ArrayBuffer(44 + dataSize)
        b1 == writeString(b0, 0, RIFF)
        b2 == setUint32(b1, 4, 36 + dataSize)
        b3 == writeString(b2, 8, WAVE)
        b4 == writeString(b3, 12, FMT)
        b5 == setUint32(b4, 16, 16)
        b6 == setUint16(b5, 20, 1)
        b7 == setUint16(b6, 22, numChannels)
        b8 == setUint32(b7, 24, sampleRate)
        b9 == setUint32(b8, 28, (sampleRate * numChannels * bitsPerSample) \div 8)
        b10 == setUint16(b9, 32, (numChannels * bitsPerSample) \div 8)
        b11 == setUint16(b10, 34, bitsPerSample)
        b12 == writeString(b11, 36, DATA)
    IN  setUint32(b12, 40, dataSize)

\* Math.max(-1, Math.min(1, x)) on numerators
Clamp(x) == IF x > SampleDen THEN SampleDen ELSE IF x < -SampleDen THEN -SampleDen ELSE x

\* the integer part of a / b, b > 0 (the conversion setInt16 applies)
Trunc(a, b) == IF a >= 0 THEN a \div b ELSE -((-a) \div b)

\* a conversion that scales both signs by 0x7FFF
pcmValue_symmetric(x) == Trunc(Clamp(x) * 32767, SampleDen)

\* sample < 0 ? sample * 0x8000 : sample * 0x7FFF, as setInt16 truncates it
pcmValue(x) ==
    IF Clamp(x) < 0 THEN Trunc(Clamp(x) * 32768, SampleDen)
    ELSE Trunc(Clamp(x) * 32767, SampleDen)

\* outputBuffer[i] = sourceData[Math.floor(i * sourceLength / targetLength)]
Resample(sourceData, targetLength) ==
    [i \in 1..targetLength |-> sourceData[((i - 1) * Len(sourceData)) \div targetLength + 1]]

\* the loop of convertToWav that writes the samples from offset 44 on
RECURSIVE WriteSamples(_, _, _)
WriteSamples(buffer, samples, i) ==
    IF i > Len(samples) THEN buffer
    ELSE WriteSamples(setInt16(buffer, 44 + 2 * (i - 1), pcmValue(samples[i])), samples, i + 1)

\* the bytes of the Blob convertToWav returns for a decoded channel resampled
\* to numSamples samples
convertToWav(sourceData, numSamples) ==
    WriteSamples(createWavHeader(numSamples, 16000, 1, 16),
                 Resample(sourceData, numSamples), 1)

(***************************************************************************)
(* State                                                                   *)
(***************************************************************************)
VARIABLES
    ua,                     \* environment: the user agent is an iOS device
    supported,              \* environment: identifiers isTypeSupported accepts
    seekTime,               \* environment: the seekTime the caller passes to
                            \* initializeAudio (ms)
    now,                    \* environment: the clock (ms)
    produced,               \* environment: blobs handed out so far
    recs,                   \* environment: the MediaRecorder objects created
    isIOS,
    supportedMimeType,
    chunkDuration,
    maxChunksFor10Seconds,
    mediaRecorder,          \* index into recs, 0 for null
    recordingStream,        \* the capture stream's number, 0 for null
    recordedChunks,
    lastTenSecondsBuffer,
    isRecordingActive,
    isResetting,
    reqs,                   \* the accepted stopRecording calls (their closures)
    restartTimers,          \* armed restart timers of handleStop
    opensPending,           \* initializeAudio calls awaiting the decode
    lastCall,               \* how the latest stopRecording call answered
    lastOpen,               \* how the latest initializeAudio call answered
    session,                \* ghost: sessions opened so far
    firstChunk,             \* ghost: id of the session's first chunk, 0 if none
    debugLogs,              \* the diagnostic log (followed in SpecLog)
    logCalls,               \* ghost: logDebug calls followed in debugLogs
    followLog,              \* ghost: the handlers' entries are followed in
                            \* debugLogs (they are left out where FALSE)
    logged,                 \* the entries reporting an error that the latest
                            \* step appended to the log, in order
    sourceRate,             \* convertToWav: sample rate of the decoded audio
    sourceData,             \* convertToWav: the decoded channel 0
    wavBuffer,              \* convertToWav: the bytes of the Blob it returned
    audioStartTime,         \* NoTime for null
    currentPlaybackTime     \* (ms)

envVars == << ua, supported, seekTime >>

logVars == << debugLogs, logCalls, followLog >>

wavVars == << sourceRate, sourceData, wavBuffer >>

playVars == << audioStartTime, currentPlaybackTime >>

recVars == << recs, mediaRecorder, chunkDuration, maxChunksFor10Seconds >>

bufVars == << recordedChunks, lastTenSecondsBuffer >>

vars == << ua, supported, seekTime, now, produced, recs, isIOS, supportedMimeType,
           chunkDuration, maxChunksFor10Seconds, mediaRecorder, recordingStream,
           recordedChunks, lastTenSecondsBuffer, isRecordingActive, isResetting,
           reqs, restartTimers, opensPending, lastCall, lastOpen, session, firstChunk,
           debugLogs, logCalls, followLog, logged, sourceRate, sourceData, wavBuffer,
           audioStartTime, currentPlaybackTime >>

\* the module's initial values (audioService.js top level)
ModuleInit ==
    /\ produced = 0
    /\ recs = << >>
    /\ isIOS = FALSE
    /\ supportedMimeType = NoMime
    /\ chunkDuration = IOS_CHUNK_MS
    /\ maxChunksFor10Seconds = 20
    /\ mediaRecorder = 0
    /\ recordingStream = 0
    /\ recordedChunks = << >>
    /\ lastTenSecondsBuffer = << >>
    /\ isRecordingActive = FALSE
    /\ isResetting = FALSE
    /\ reqs = << >>
    /\ restartTimers = 0
    /\ opensPending = 0
    /\ lastCall = "none"
    /\ lastOpen = "none"
    /\ session = 0
    /\ firstChunk = 0
    /\ debugLogs = << >>
    /\ logCalls = 0
    /\ logged = << >>
    /\ sourceRate = 0
    /\ sourceData = << >>
    /\ wavBuffer = << >>
    /\ audioStartTime = NoTime
    /\ currentPlaybackTime = 0

\* the environment of the capture specifications: the clock starts at 0, every
\* initializeAudio call is made with seekTime 0
Init ==
    /\ ua \in BOOLEAN
    /\ supported \in SupportChoices
    /\ seekTime = 0
    /\ now = 0
    /\ followLog = FALSE
    /\ ModuleInit

(***************************************************************************)
(* The diagnostic log                                                      *)
(***************************************************************************)
\* a logDebug that never trims
logDebug_untrimmed(logs, logEntry) == Append(logs, logEntry)

\* logDebug(message, data): push, then keep the last MAX_LOG_ENTRIES
logDebug(logs, logEntry) ==
    LET pushed == Append(logs, logEntry)
    IN  IF Len(pushed) > MAX_LOG_ENTRIES
        THEN SubSeq(pushed, Len(pushed) - MAX_LOG_ENTRIES + 1, Len(pushed))
        ELSE pushed

\* n logDebug calls in a row, the first one numbered first
RECURSIVE logDebugCalls(_, _, _)
logDebugCalls(logs, first, n) ==
    IF n = 0 THEN logs ELSE logDebugCalls(logDebug(logs, first), first + 1, n - 1)

\* the logDebug calls of a handler: where the log is followed, the entries of
\* logged' are appended to logs (debugLogs as the handler found or left it),
\* each named by the number of its call
WriteLog(logs) ==
    /\ debugLogs' = IF followLog THEN logDebugCalls(logs, logCalls + 1, Len(logged')) ELSE logs
    /\ logCalls' = IF followLog THEN logCalls + Len(logged') ELSE logCalls
    /\ UNCHANGED followLog

\* a call logDebug(message, { error }) as the capture actions record it
ErrorEntry(message, error) == [message |-> message, error |-> error]

\* the texts of the errors stopRecording's guards reject with
GuardError(outcome) ==
    CASE outcome = "NotActive" -> "Media recorder not active"
      [] outcome = "Busy" -> "Reset operation in progress"
      [] outcome = "Empty" -> "No audio chunks in buffer"
      [] OTHER -> ""

\* a failure of processAudio that is rejected without a log entry
ProcessingFailure_silent(error) == << >>

\* the catch of processAudio, then the .catch of handleStop, both before the
\* reject
ProcessingFailure(error) ==
    << ErrorEntry("Error in processAudio", error),
       ErrorEntry("Audio processing failed", error) >>

\* a setupMediaRecorder that throws without a log entry
SetupFailure_silent == << >>

\* the catch of setupMediaRecorder when it throws for want of a MIME type
SetupFailure ==
    IF supportedMimeType = NoMime
    THEN << ErrorEntry("Error setting up media recorder", "No supported MIME type available") >>
    ELSE << >>

(***************************************************************************)
(* The capturer: resetRecordingState, setupMediaRecorder                   *)
(***************************************************************************)
CeilDiv(a, b) == (a + b - 1) \div b

\* a release that stops the recorder whatever its state
StopIfActive_always(rs, m) ==
    IF m # 0 THEN [rs EXCEPT ![m].state = "inactive", ![m].stopQ = TRUE] ELSE rs

\* if (mediaRecorder && mediaRecorder.state !== 'inactive') mediaRecorder.stop():
\* the recorder turns inactive at once and its stop task is queued
StopIfActive(rs, m) ==
    IF m # 0 /\ rs[m].state # "inactive"
    THEN [rs EXCEPT ![m].state = "inactive", ![m].stopQ = TRUE]
    ELSE rs

\* what resetRecordingState reads and writes
CaptureState ==
    [recs |-> recs, mediaRecorder |-> mediaRecorder, recordedChunks |-> recordedChunks,
     lastTenSecondsBuffer |-> lastTenSecondsBuffer, isRecordingActive |-> isRecordingActive,
     debugLogs |-> debugLogs]

\* a release that also empties the diagnostic log
resetRecordingState_clearsLog(st) ==
    [st EXCEPT !.recs = StopIfActive(st.recs, st.mediaRecorder),
               !.recordedChunks = << >>,
               !.lastTenSecondsBuffer = << >>,
               !.isRecordingActive = FALSE,
               !.debugLogs = << >>]

\* resetRecordingState(): stops the recorder unless inactive, empties both
\* chunk lists, clears isRecordingActive
resetRecordingState(st) ==
    [st EXCEPT !.recs = StopIfActive(st.recs, st.mediaRecorder),
               !.recordedChunks = << >>,
               !.lastTenSecondsBuffer = << >>,
               !.isRecordingActive = FALSE]

\* a setup that leaves chunkDuration at the module's initial value
ChunkInterval_initial(ios) == IOS_CHUNK_MS

\* chunkDuration as setupMediaRecorder sets it: 500 on iOS, 1000 otherwise
ChunkInterval(ios) == IF ios THEN IOS_CHUNK_MS ELSE DESKTOP_CHUNK_MS

\* new MediaRecorder(stream, { mimeType: supportedMimeType }) and
\* start(chunkDuration), chunkDuration as setupMediaRecorder has just set it
NewRecorder(stream) ==
    [state |-> "recording", startQ |-> TRUE, stopQ |-> FALSE,
     mime |-> supportedMimeType, sess |-> session, stream |-> stream,
     timeslice |-> chunkDuration']

\* setupMediaRecorder(stream): stops the running recorder, throws without a
\* MIME type, else sets the chunk interval and starts a new recorder
setupMediaRecorder(stream) ==
    IF supportedMimeType = NoMime
    THEN /\ recs' = StopIfActive(recs, mediaRecorder)
         /\ UNCHANGED << mediaRecorder, chunkDuration, maxChunksFor10Seconds >>
    ELSE /\ chunkDuration' = ChunkInterval(isIOS)
         /\ maxChunksFor10Seconds' = CeilDiv(WINDOW_MS, chunkDuration')
         /\ recs' = Append(StopIfActive(recs, mediaRecorder), NewRecorder(stream))
         /\ mediaRecorder' = Len(recs')

(***************************************************************************)
(* initializeAudio                                                         *)
(***************************************************************************)
\* initializeAudio up to its first await: detectDevice, the MIME type, then
\* resetRecordingState and the audio context (ctxOk: it can be created/resumed)
OpenBegin(ctxOk) ==
    /\ isIOS' = ua
    /\ supportedMimeType' = getBestSupportedMimeType(ua, supported)
    /\ IF supportedMimeType' = NoMime
       THEN UNCHANGED << recs, recordedChunks, lastTenSecondsBuffer, isRecordingActive,
                         opensPending, session, firstChunk >>
       ELSE /\ LET st == resetRecordingState(CaptureState)
               IN  /\ recs' = st.recs
                   /\ recordedChunks' = st.recordedChunks
                   /\ lastTenSecondsBuffer' = st.lastTenSecondsBuffer
                   /\ isRecordingActive' = st.isRecordingActive
            /\ session' = session + 1
            /\ firstChunk' = 0
            /\ opensPending' = IF ctxOk THEN opensPending + 1 ELSE opensPending
    /\ lastOpen' = IF supportedMimeType' = NoMime THEN "CapabilityError"
                   ELSE IF ctxOk THEN "pending" ELSE "PlatformAudioError"
    /\ logged' = IF supportedMimeType' = NoMime
                 THEN << ErrorEntry("Initialization failed", "CapabilityError") >>
                 ELSE IF ctxOk THEN << >>
                 ELSE << ErrorEntry("Error initializing audio", "PlatformAudioError") >>
    /\ WriteLog(IF supportedMimeType' = NoMime THEN debugLogs
                ELSE resetRecordingState(CaptureState).debugLogs)
    /\ UNCHANGED << envVars, wavVars, playVars, now, produced, chunkDuration, maxChunksFor10Seconds,
                    mediaRecorder, recordingStream, isResetting, reqs, restartTimers,
                    lastCall >>

\* initializeAudio after decodeAudioData settles: the graph, the capture stream
\* and setupMediaRecorder (decodeOk), or the rejection
OpenFinish(decodeOk) ==
    /\ opensPending > 0
    /\ opensPending' = opensPending - 1
    /\ IF decodeOk
       THEN /\ recordingStream' = recordingStream + 1
            /\ setupMediaRecorder(recordingStream')
       ELSE UNCHANGED << recordingStream, recVars >>
    /\ IF decodeOk /\ supportedMimeType # NoMime
       THEN /\ audioStartTime' = now
            /\ currentPlaybackTime' = seekTime
       ELSE UNCHANGED playVars
    /\ lastOpen' = IF ~decodeOk THEN "DecodeError"
                   ELSE IF supportedMimeType = NoMime THEN "SetupError" ELSE "ok"
    /\ logged' = IF ~decodeOk
                 THEN << ErrorEntry("Error initializing audio", "DecodeError") >>
                 ELSE IF supportedMimeType = NoMime
                 THEN Append(SetupFailure, ErrorEntry("Error initializing audio", "SetupError"))
                 ELSE << >>
    /\ WriteLog(debugLogs)
    /\ UNCHANGED << envVars, wavVars, now, produced, isIOS, supportedMimeType, bufVars,
                    isRecordingActive, isResetting, reqs, restartTimers, lastCall,
                    session, firstChunk >>

(***************************************************************************)
(* Playback time (getCurrentPlaybackTime, setCurrentPlaybackTime).  Times  *)
(* are in ms; the code's seconds are these divided by 1000.                *)
(***************************************************************************)
\* a reading that leaves out the time elapsed since the start
getCurrentPlaybackTime_frozen ==
    IF audioStartTime = NoTime \/ audioStartTime = 0 THEN 0 ELSE currentPlaybackTime

\* getCurrentPlaybackTime(): 0 while audioStartTime is null (or 0), else
\* currentPlaybackTime plus the clock time since audioStartTime
getCurrentPlaybackTime ==
    IF audioStartTime = NoTime \/ audioStartTime = 0 THEN 0
    ELSE currentPlaybackTime + (now - audioStartTime)

\* setCurrentPlaybackTime(time)
setCurrentPlaybackTime(time) ==
    /\ currentPlaybackTime' = time
    /\ audioStartTime' = now
    /\ logged' = << >>
    /\ WriteLog(debugLogs)
    /\ UNCHANGED << envVars, wavVars, now, produced, recs, isIOS, supportedMimeType,
                    chunkDuration, maxChunksFor10Seconds, mediaRecorder, recordingStream,
                    bufVars, isRecordingActive, isResetting, reqs, restartTimers,
                    opensPending, lastCall, lastOpen, session, firstChunk >>

(***************************************************************************)
(* stopRecording and its callbacks                                         *)
(***************************************************************************)
\* [...lastTenSecondsBuffer]
SnapshotCopy(buffer) == buffer

\* a handleStop that reads the rolling buffer instead of the closure's copy
ProcessInput_live(req, live) == live

\* the buffer handleStop hands to processAudio: the closure's bufferCopy, not
\* the rolling buffer as it is by then (live)
ProcessInput(req, live) == req.bufferCopy

\* handleStop() of request q: processAudio, then resolve and arm the restart
\* timer, or log, reject and clear isResetting.  st is [reqs, isResetting,
\* restartTimers, live (the rolling buffer), logged]; a promise settles once.  via
\* names the caller: "timeout", "ack" (the stop listener) or "throw".
handleStop(st, q, mimeType, ios, via) ==
    LET req == st.reqs[q]
        res == processAudio(ProcessInput(req, st.live), req.chunksCopy, mimeType, ios)
        settled == IF req.status = "pending"
                   THEN [req EXCEPT !.status = IF res.ok THEN "resolved" ELSE "rejected",
                                    !.error = res.error,
                                    !.used = res.used,
                                    !.blob = res.blob,
                                    !.mimeType = res.mimeType,
                                    !.filename = res.filename,
                                    !.via = via,
                                    !.header = IF Len(req.chunksCopy) > 0
                                               THEN req.chunksCopy[1].id ELSE 0]
                   ELSE req
        after == [settled EXCEPT !.runs = @ + 1]
    IN  IF res.ok
        THEN [st EXCEPT !.reqs[q] = after, !.restartTimers = @ + 1]
        ELSE [st EXCEPT !.reqs[q] = after, !.isResetting = FALSE,
                        !.logged = @ \o ProcessingFailure(res.error)]

\* a stopRecording without the empty-buffer check
StopOutcome_unchecked ==
    IF mediaRecorder = 0 \/ recs[mediaRecorder].state = "inactive" \/ ~isRecordingActive
    THEN "NotActive"
    ELSE IF isResetting THEN "Busy"
    ELSE "Accepted"

\* the guards of stopRecording, in the code's order
StopOutcome ==
    IF mediaRecorder = 0 \/ recs[mediaRecorder].state = "inactive" \/ ~isRecordingActive
    THEN "NotActive"
    ELSE IF isResetting THEN "Busy"
    ELSE IF Len(SnapshotCopy(lastTenSecondsBuffer)) = 0 THEN "Empty"
    ELSE "Accepted"

\* an empty-buffer rejection that leaves isResetting set
ResettingAfterGuard_left(outcome, resetting) ==
    IF outcome = "Empty" THEN TRUE ELSE resetting

\* isResetting after a guard has rejected the call: the first two guards return
\* before it is written, the empty-buffer guard after it was set, and clears it
ResettingAfterGuard(outcome, resetting) ==
    IF outcome = "Empty" THEN FALSE ELSE resetting

\* a request whose promise is resolved when it is accepted
NewRequest_resolved ==
    [status |-> "resolved", error |-> "", bufferCopy |-> SnapshotCopy(lastTenSecondsBuffer),
     chunksCopy |-> recordedChunks, timer |-> TRUE, rec |-> mediaRecorder,
     listening |-> TRUE, runs |-> 0, used |-> << >>, blob |-> << >>, header |-> 0,
     mimeType |-> "", filename |-> "", via |-> "",
     sess |-> session, first |-> firstChunk, atAccept |-> lastTenSecondsBuffer]

\* the closure of an accepted stopRecording call: its promise, the copies, the
\* stop timeout and the once-listener on the recorder it stops
NewRequest ==
    [status |-> "pending", error |-> "", bufferCopy |-> SnapshotCopy(lastTenSecondsBuffer),
     chunksCopy |-> recordedChunks, timer |-> TRUE, rec |-> mediaRecorder,
     listening |-> TRUE, runs |-> 0, used |-> << >>, blob |-> << >>, header |-> 0,
     mimeType |-> "", filename |-> "", via |-> "",
     sess |-> session, first |-> firstChunk, atAccept |-> lastTenSecondsBuffer]

\* stopRecording(): throws says that mediaRecorder.stop() throws
stopRecording(throws) ==
    /\ lastCall' = StopOutcome
    /\ IF StopOutcome # "Accepted"
       THEN /\ logged' = << ErrorEntry("Stop recording failed", GuardError(StopOutcome)) >>
            /\ isResetting' = ResettingAfterGuard(StopOutcome, isResetting)
            /\ UNCHANGED << recs, isRecordingActive, reqs, restartTimers >>
       ELSE /\ isRecordingActive' = FALSE
            /\ IF ~throws
               THEN /\ recs' = [recs EXCEPT ![mediaRecorder].state = "inactive",
                                            ![mediaRecorder].stopQ = TRUE]
                    /\ reqs' = Append(reqs, NewRequest)
                    /\ isResetting' = TRUE
                    /\ logged' = << >>
                    /\ UNCHANGED restartTimers
               ELSE LET st == handleStop([reqs |-> Append(reqs, [NewRequest EXCEPT !.timer = FALSE]),
                                          isResetting |-> TRUE,
                                          restartTimers |-> restartTimers,
                                          live |-> lastTenSecondsBuffer,
                                          logged |-> << ErrorEntry("Error stopping MediaRecorder",
                                                                   "StopError") >>],
                                         Len(reqs) + 1, recs[mediaRecorder].mime, isIOS,
                                         "throw")
                    IN  /\ reqs' = st.reqs
                        /\ logged' = st.logged
                        /\ isResetting' = st.isResetting
                        /\ restartTimers' = st.restartTimers
                        /\ UNCHANGED recs
    /\ WriteLog(debugLogs)
    /\ UNCHANGED << envVars, wavVars, playVars, now, produced, isIOS, supportedMimeType, chunkDuration,
                    maxChunksFor10Seconds, mediaRecorder, recordingStream, bufVars,
                    opensPending, lastOpen, session, firstChunk >>

\* a stop timeout that expires without calling handleStop
StopTimeout_silent(q) ==
    /\ q \in 1..Len(reqs)
    /\ reqs[q].timer
    /\ reqs' = [reqs EXCEPT ![q].timer = FALSE]
    /\ logged' = << >>
    /\ WriteLog(debugLogs)
    /\ UNCHANGED << envVars, wavVars, playVars, now, produced, recs, isIOS, supportedMimeType, chunkDuration,
                    maxChunksFor10Seconds, mediaRecorder, recordingStream, bufVars,
                    isRecordingActive, isResetting, restartTimers, opensPending, lastCall, lastOpen,
                    session, firstChunk >>

\* the stopTimeout of request q fires
StopTimeout(q) ==
    /\ q \in 1..Len(reqs)
    /\ reqs[q].timer
    /\ LET st == handleStop([reqs |-> [reqs EXCEPT ![q].timer = FALSE],
                             isResetting |-> isResetting,
                             restartTimers |-> restartTimers,
                             live |-> lastTenSecondsBuffer,
                             logged |-> << >>],
                            q, recs[mediaRecorder].mime, isIOS, "timeout")
       IN  /\ reqs' = st.reqs
           /\ logged' = st.logged
           /\ isResetting' = st.isResetting
           /\ restartTimers' = st.restartTimers
    /\ WriteLog(debugLogs)
    /\ UNCHANGED << envVars, wavVars, playVars, now, produced, recs, isIOS, supportedMimeType, chunkDuration,
                    maxChunksFor10Seconds, mediaRecorder, recordingStream, bufVars,
                    isRecordingActive, opensPending, lastCall, lastOpen, session, firstChunk >>

\* a restart timer that leaves isResetting as it is
RestartTimer_keepsFlag ==
    /\ restartTimers > 0
    /\ restartTimers' = restartTimers - 1
    /\ IF recordingStream # 0 /\ ~isResetting
       THEN /\ setupMediaRecorder(recordingStream)
            /\ logged' = SetupFailure
       ELSE /\ logged' = << >>
            /\ UNCHANGED recVars
    /\ UNCHANGED isResetting
    /\ WriteLog(debugLogs)
    /\ UNCHANGED << envVars, wavVars, playVars, now, produced, isIOS, supportedMimeType, recordingStream,
                    bufVars, isRecordingActive, reqs, opensPending, lastCall, lastOpen, session,
                    firstChunk >>

\* the restart timer armed by handleStop fires.  setupMediaRecorder is an async
\* function and is not awaited here: when it fails its own catch logs, and the
\* timer's catch, which would log 'Error restarting media recorder', never runs
RestartTimer ==
    /\ restartTimers > 0
    /\ restartTimers' = restartTimers - 1
    /\ IF recordingStream # 0 /\ ~isResetting
       THEN /\ setupMediaRecorder(recordingStream)
            /\ logged' = SetupFailure
       ELSE /\ logged' = << >>
            /\ UNCHANGED recVars
    /\ isResetting' = FALSE
    /\ WriteLog(debugLogs)
    /\ UNCHANGED << envVars, wavVars, playVars, now, produced, isIOS, supportedMimeType, recordingStream,
                    bufVars, isRecordingActive, reqs, opensPending, lastCall, lastOpen, session,
                    firstChunk >>

(***************************************************************************)
(* The platform                                                            *)
(***************************************************************************)
\* the system clock that Date.now() reads is set back by ms (a clock
\* synchronisation step); Date.now() is not monotonic
ClockSetBack(ms) ==
    /\ now >= ms
    /\ now' = now - ms
    /\ logged' = << >>
    /\ UNCHANGED << envVars, logVars, wavVars, playVars, produced, recs, isIOS, supportedMimeType, chunkDuration,
                    maxChunksFor10Seconds, mediaRecorder, recordingStream, bufVars,
                    isRecordingActive, isResetting, reqs, restartTimers, opensPending,
                    lastCall, lastOpen, session, firstChunk >>

\* ms pass on the clock while no handler runs
ClockAdvance(ms) ==
    /\ now' = now + ms
    /\ logged' = << >>
    /\ UNCHANGED << envVars, logVars, wavVars, playVars, produced, recs, isIOS,
                    supportedMimeType, chunkDuration, maxChunksFor10Seconds, mediaRecorder,
                    recordingStream, bufVars, isRecordingActive, isResetting, reqs,
                    restartTimers, opensPending, lastCall, lastOpen, session, firstChunk >>

\* the caller will pass time as the seekTime of its next initializeAudio call
SeekChange(time) ==
    /\ seekTime' = time
    /\ logged' = << >>
    /\ UNCHANGED << ua, supported, logVars, wavVars, playVars, now, produced, recs, isIOS,
                    supportedMimeType, chunkDuration, maxChunksFor10Seconds, mediaRecorder,
                    recordingStream, bufVars, isRecordingActive, isResetting, reqs,
                    restartTimers, opensPending, lastCall, lastOpen, session, firstChunk >>

\* navigator.userAgent, which detectDevice reads again on every
\* initializeAudio, answers differently from now on (a user-agent override)
UserAgentChange ==
    /\ ua' = ~ua
    /\ logged' = << >>
    /\ UNCHANGED << supported, seekTime, logVars, wavVars, playVars, now, produced, isIOS, supportedMimeType, recVars,
                    recordingStream, bufVars, isRecordingActive, isResetting, reqs,
                    restartTimers, opensPending, lastCall, lastOpen, session, firstChunk >>

(***************************************************************************)
(* MediaRecorder events                                                    *)
(***************************************************************************)
\* onstart of recorder r
StartEvent(r) ==
    /\ r \in 1..Len(recs)
    /\ recs[r].startQ
    /\ recs' = [recs EXCEPT ![r].startQ = FALSE]
    /\ isRecordingActive' = TRUE
    /\ logged' = << >>
    /\ WriteLog(debugLogs)
    /\ UNCHANGED << envVars, wavVars, playVars, now, produced, isIOS, supportedMimeType, chunkDuration,
                    maxChunksFor10Seconds, mediaRecorder, recordingStream, bufVars,
                    isResetting, reqs, restartTimers, opensPending, lastCall, lastOpen, session,
                    firstChunk >>

\* recorder r fails while it records: onerror only writes a log entry; the
\* platform inactivates the recorder and queues its stop task
ErrorEvent(r) ==
    /\ r \in 1..Len(recs)
    /\ recs[r].state = "recording"
    /\ recs' = [recs EXCEPT ![r].state = "inactive", ![r].stopQ = TRUE]
    /\ logged' = << ErrorEntry("Media recorder error", "MediaRecorderError") >>
    /\ WriteLog(debugLogs)
    /\ UNCHANGED << envVars, wavVars, playVars, now, produced, isIOS, supportedMimeType, chunkDuration,
                    maxChunksFor10Seconds, mediaRecorder, recordingStream, bufVars,
                    isRecordingActive, isResetting, reqs, restartTimers, opensPending,
                    lastCall, lastOpen, session, firstChunk >>

\* the data callback of recorder r with a blob of sz bytes, dt ms after the
\* last clock reading; manageBuffer reads the clock drift ms later
Deliver(r, sz, dt, drift) ==
    LET blob == [id |-> produced + 1, size |-> sz, rec |-> r]
        st == ondataavailable([recordedChunks |-> recordedChunks,
                               lastTenSecondsBuffer |-> lastTenSecondsBuffer],
                              blob, now + dt, now + dt + drift, maxChunksFor10Seconds)
    IN  /\ now' = now + dt + drift
        /\ produced' = IF sz > 0 THEN produced + 1 ELSE produced
        /\ recordedChunks' = st.recordedChunks
        /\ lastTenSecondsBuffer' = st.lastTenSecondsBuffer
        /\ firstChunk' = IF sz > 0 /\ firstChunk = 0 /\ recs[r].sess = session
                         THEN produced + 1 ELSE firstChunk

\* a timeslice of recorder r elapses while it records
DataAvailable(r, sz, dt, drift) ==
    /\ r \in 1..Len(recs)
    /\ recs[r].state = "recording"
    /\ ~recs[r].startQ
    /\ Deliver(r, sz, dt, drift)
    /\ logged' = << >>
    /\ WriteLog(debugLogs)
    /\ UNCHANGED << envVars, wavVars, playVars, recs, isIOS, supportedMimeType, chunkDuration,
                    maxChunksFor10Seconds, mediaRecorder, recordingStream,
                    isRecordingActive, isResetting, reqs, restartTimers, opensPending,
                    lastCall, lastOpen, session >>

\* the stop listeners of recorder r, in the order they were added, from
\* request q on: clearTimeout(stopTimeout), then handleStop()
RECURSIVE StopListeners(_, _, _, _, _)
StopListeners(st, r, q, mimeType, ios) ==
    IF q > Len(st.reqs) THEN st
    ELSE IF st.reqs[q].listening /\ st.reqs[q].rec = r
    THEN StopListeners(
             handleStop([st EXCEPT !.reqs[q].listening = FALSE, !.reqs[q].timer = FALSE],
                        q, mimeType, ios, "ack"),
             r, q + 1, mimeType, ios)
    ELSE StopListeners(st, r, q + 1, mimeType, ios)

\* the stop task of recorder r: the final dataavailable, then the stop event
StopTask(r, sz, dt, drift) ==
    /\ r \in 1..Len(recs)
    /\ recs[r].stopQ
    /\ ~recs[r].startQ
    /\ recs' = [recs EXCEPT ![r].stopQ = FALSE]
    /\ Deliver(r, sz, dt, drift)
    /\ LET st == StopListeners([reqs |-> reqs, isResetting |-> isResetting,
                                restartTimers |-> restartTimers,
                                live |-> lastTenSecondsBuffer',
                                logged |-> << >>],
                               r, 1, recs[mediaRecorder].mime, isIOS)
       IN  /\ reqs' = st.reqs
           /\ logged' = st.logged
           /\ isResetting' = st.isResetting
           /\ restartTimers' = st.restartTimers
    /\ WriteLog(debugLogs)
    /\ UNCHANGED << envVars, wavVars, playVars, isIOS, supportedMimeType, chunkDuration,
                    maxChunksFor10Seconds, mediaRecorder, recordingStream,
                    isRecordingActive, opensPending, lastCall, lastOpen, session >>

(***************************************************************************)
(* Specifications                                                          *)
(***************************************************************************)
\* what a timeslice may bring in Spec: <<bytes, ms since the last reading>>;
\* the chunk interval, a pause longer than the window, or a large chunk
ChunkKinds ==
    { << SmallChunk, chunkDuration >>, << SmallChunk, GapMs >>, << BigChunk, chunkDuration >> }

\* the caller awaits an initializeAudio call before it makes the next one
Open ==
    /\ session < MaxOpens
    /\ opensPending = 0
    /\ \E ctxOk \in BOOLEAN : OpenBegin(ctxOk)

Decoded == \E decodeOk \in BOOLEAN : OpenFinish(decodeOk)

\* calls are bounded by the requests accepted; a rejected call is always explored
Request ==
    /\ StopOutcome = "Accepted" => Len(reqs) < MaxRequests
    /\ \E throws \in BOOLEAN : stopRecording(throws)

Timeout == \E q \in 1..Len(reqs) : StopTimeout(q)

Restart == RestartTimer

Started == \E r \in 1..Len(recs) : StartEvent(r)

Chunk ==
    /\ produced < MaxChunks
    /\ \E r \in 1..Len(recs), k \in ChunkKinds : DataAvailable(r, k[1], k[2], 0)

\* the stop task, its final blob empty or not
Stopped ==
    \E r \in 1..Len(recs), sz \in {0, SmallChunk} :
        /\ sz > 0 => produced < MaxChunks
        /\ StopTask(r, sz, IF sz > 0 THEN chunkDuration ELSE 0, 0)

Next ==
    \/ Open
    \/ Decoded
    \/ Request
    \/ Timeout
    \/ Restart
    \/ Started
    \/ Chunk
    \/ Stopped

Spec == Init /\ [][Next]_vars

(***************************************************************************)
(* SpecBuf: one session and one snapshot request, with the timing of the   *)
(* chunks varied: bursts, the chunk interval, a long step, clock drift     *)
(* inside the handler.                                                     *)
(***************************************************************************)
\* <<ms since the last reading, drift inside the handler>>
BufSteps ==
    { << 0, 0 >>, << chunkDuration, 0 >>, << LongStepMs, 0 >>, << LongStepMs, MaxDrift >> }

BufOpen ==
    /\ session = 0
    /\ OpenBegin(TRUE)

BufDecoded == OpenFinish(TRUE)

BufChunk ==
    /\ produced < MaxBufChunks
    /\ now <= MaxBufTime
    /\ \E r \in 1..Len(recs), k \in BufSteps : DataAvailable(r, SmallChunk, k[1], k[2])

\* the one request of the session, made when it can be accepted
BufRequest ==
    /\ reqs = << >>
    /\ StopOutcome = "Accepted"
    /\ stopRecording(FALSE)

BufStopped ==
    \E r \in 1..Len(recs), sz \in {0, SmallChunk} :
        /\ sz > 0 => produced < MaxBufChunks
        /\ StopTask(r, sz, IF sz > 0 THEN chunkDuration ELSE 0, 0)

NextBuf ==
    \/ BufOpen
    \/ BufDecoded
    \/ Started
    \/ BufChunk
    \/ BufRequest
    \/ Timeout
    \/ BufStopped

SpecBuf == Init /\ [][NextBuf]_vars

(***************************************************************************)
(* SpecLong: one long session, a chunk every chunk interval.               *)
(***************************************************************************)
LongChunk ==
    /\ produced < MaxLongChunks
    /\ \E r \in 1..Len(recs) : DataAvailable(r, SmallChunk, chunkDuration, 0)

LongStopped == \E r \in 1..Len(recs) : StopTask(r, 0, 0, 0)

NextLong ==
    \/ BufOpen
    \/ BufDecoded
    \/ Started
    \/ LongChunk
    \/ BufRequest
    \/ Timeout
    \/ LongStopped

SpecLong == Init /\ [][NextLong]_vars

(***************************************************************************)
(* SpecWin: one session whose chunks arrive a timeslice (of either         *)
(* platform) apart, the first at time 0, the clock read once per chunk.    *)
(***************************************************************************)
WinChunk ==
    /\ produced < MaxWinChunks
    /\ \E r \in 1..Len(recs), dt \in {IOS_CHUNK_MS, DESKTOP_CHUNK_MS} :
           DataAvailable(r, SmallChunk, IF produced = 0 THEN 0 ELSE dt, 0)

NextWin ==
    \/ BufOpen
    \/ BufDecoded
    \/ Started
    \/ WinChunk

SpecWin == Init /\ [][NextWin]_vars

(***************************************************************************)
(* SpecClock: one session on a system whose clock may be set back, at most *)
(* once between two chunks; a chunk arrives a timeslice or a long pause    *)
(* after the last one.                                                     *)
(***************************************************************************)
ClockChunk ==
    /\ produced < MaxClockChunks
    /\ \E r \in 1..Len(recs), dt \in {chunkDuration, LongStepMs} :
           DataAvailable(r, SmallChunk, dt, 0)

ClockStep ==
    /\ lastTenSecondsBuffer # << >>
    /\ now = Last(lastTenSecondsBuffer).timestamp
    /\ ClockSetBack(SetBackMs)

NextClock ==
    \/ BufOpen
    \/ BufDecoded
    \/ Started
    \/ ClockChunk
    \/ ClockStep

SpecClock == Init /\ [][NextClock]_vars

(***************************************************************************)
(* SpecDetect: one open on every platform: either user agent, and any      *)
(* answer of MediaRecorder.isTypeSupported over the candidates (the empty  *)
(* one also stands for a browser without MediaRecorder).                   *)
(***************************************************************************)
Candidates ==
    {iosMimeTypes[i] : i \in 1..Len(iosMimeTypes)}
        \cup {desktopMimeTypes[i] : i \in 1..Len(desktopMimeTypes)}

InitDetect ==
    /\ ua \in BOOLEAN
    /\ supported \in SUBSET Candidates
    /\ seekTime = 0
    /\ now = 0
    /\ followLog = FALSE
    /\ ModuleInit

NextDetect ==
    \/ BufOpen
    \/ BufDecoded
    \/ Started

SpecDetect == InitDetect /\ [][NextDetect]_vars

(***************************************************************************)
(* SpecLive: Spec with the event loop's guarantee that an armed timer      *)
(* fires, over one session.  Nothing obliges the capturer to deliver its   *)
(* stop task.                                                              *)
(***************************************************************************)
LiveOpen ==
    /\ session = 0
    /\ \E ctxOk \in BOOLEAN : OpenBegin(ctxOk)

LiveRequest ==
    /\ StopOutcome = "Accepted" => Len(reqs) < MaxLiveRequests
    /\ \E throws \in BOOLEAN : stopRecording(throws)

LiveChunk ==
    /\ produced < MaxLiveChunks
    /\ \E r \in 1..Len(recs), sz \in {SmallChunk, BigChunk} :
           DataAvailable(r, sz, chunkDuration, 0)

NextLive ==
    \/ LiveOpen
    \/ Decoded
    \/ LiveRequest
    \/ Timeout
    \/ Restart
    \/ Started
    \/ LiveChunk
    \/ LongStopped

TimersFire ==
    /\ \A q \in 1..MaxLiveRequests : WF_vars(StopTimeout(q))
    /\ WF_vars(RestartTimer)

SpecLive == Init /\ [][NextLive]_vars /\ TimersFire

(***************************************************************************)
(* SpecRace: sessions re-opened around snapshot requests whose stop        *)
(* acknowledgement is late, on a WebM desktop, every open succeeding.      *)
(***************************************************************************)
InitRace ==
    /\ ua = FALSE
    /\ supported = {"audio/webm; codecs=opus", "audio/webm"}
    /\ seekTime = 0
    /\ now = 0
    /\ followLog = FALSE
    /\ ModuleInit

RaceOpen ==
    /\ session < MaxRaceOpens
    /\ opensPending = 0
    /\ OpenBegin(TRUE)

RaceChunk ==
    /\ produced < MaxRaceChunks
    /\ \E r \in 1..Len(recs) : DataAvailable(r, SmallChunk, chunkDuration, 0)

RaceRequest ==
    /\ Len(reqs) < MaxRaceRequests
    /\ StopOutcome = "Accepted"
    /\ stopRecording(FALSE)

NextRace ==
    \/ RaceOpen
    \/ BufDecoded
    \/ Started
    \/ RaceChunk
    \/ RaceRequest
    \/ Timeout
    \/ Restart
    \/ LongStopped

SpecRace == InitRace /\ [][NextRace]_vars

(***************************************************************************)
(* SpecReopen: Spec with sessions opened one after the other, on a         *)
(* platform whose user agent may be overridden between two opens and whose *)
(* recorders may fail.                                                     *)
(***************************************************************************)
ReOpen ==
    /\ session < MaxReOpens
    /\ \E ctxOk \in BOOLEAN : OpenBegin(ctxOk)

Failed == \E r \in 1..Len(recs) : ErrorEvent(r)

ReRequest ==
    /\ StopOutcome = "Accepted" => Len(reqs) < MaxReRequests
    /\ stopRecording(FALSE)

ReChunk ==
    /\ produced < MaxReChunks
    /\ \E r \in 1..Len(recs) : DataAvailable(r, SmallChunk, chunkDuration, 0)

ReStopped ==
    \E r \in 1..Len(recs), sz \in {0, SmallChunk} :
        /\ sz > 0 => produced < MaxReChunks
        /\ StopTask(r, sz, 0, 0)

NextReopen ==
    \/ ReOpen
    \/ Failed
    \/ Decoded
    \/ ReRequest
    \/ Timeout
    \/ Restart
    \/ Started
    \/ ReChunk
    \/ ReStopped
    \/ UserAgentChange

SpecReopen == Init /\ [][NextReopen]_vars

(***************************************************************************)
(* SpecReset: the same platform, the caller awaiting each initializeAudio  *)
(* before it calls the next one.                                           *)
(***************************************************************************)
ResetOpen ==
    /\ opensPending = 0
    /\ ReOpen

\* the user agent is overridden while no call is under way and before the
\* first snapshot request
ResetUserAgent ==
    /\ opensPending = 0
    /\ reqs = << >>
    /\ UserAgentChange

NextReset ==
    \/ ResetOpen
    \/ Failed
    \/ Decoded
    \/ ReRequest
    \/ Timeout
    \/ Restart
    \/ Started
    \/ ReChunk
    \/ ReStopped
    \/ ResetUserAgent

SpecReset == Init /\ [][NextReset]_vars

(***************************************************************************)
(* SpecLog: the diagnostic log under a sequence of logDebug calls, made by *)
(* whichever handler; debugLogs is written by logDebug alone.  An entry is *)
(* named by the number of the call that appended it.                       *)
(***************************************************************************)
LogDebug ==
    /\ logCalls < MaxLogCalls
    /\ logCalls' = logCalls + 1
    /\ debugLogs' = logDebug(debugLogs, logCalls + 1)
    /\ UNCHANGED followLog
    /\ UNCHANGED << envVars, now, produced, recs, isIOS, supportedMimeType, chunkDuration,
                    maxChunksFor10Seconds, mediaRecorder, recordingStream, bufVars,
                    isRecordingActive, isResetting, reqs, restartTimers, opensPending,
                    lastCall, lastOpen, session, firstChunk, logged, wavVars, playVars >>

NextLog == LogDebug

SpecLog == Init /\ [][NextLog]_vars

(***************************************************************************)
(* SpecWav: convertToWav applied to a decoded window, over every short     *)
(* channel of samples between -2 and 2 and three source rates.             *)
(***************************************************************************)
SampleRates == {8000, 16000, 48000}

\* numerators of the samples explored: -2, -1, just above -1, just below 0, 0,
\* just above 0, just below 1, 1, 2
Samples ==
    { -2 * SampleDen, -SampleDen, 1 - SampleDen, -1, 0, 1, SampleDen - 1, SampleDen,
      2 * SampleDen }

\* an AudioBuffer holds at least one frame
Channels == UNION {[1..n -> Samples] : n \in 1..MaxSamples}

\* Math.ceil(audioBuffer.duration * sampleRate), duration being length / rate
\* as a double: the product may round to just above the quotient
NumSamples(length, rate) ==
    {CeilDiv(length * 16000, rate), CeilDiv(length * 16000, rate) + 1}

\* tempContext.decodeAudioData(arrayBuffer) resolves
WavDecoded ==
    /\ sourceRate = 0
    /\ \E rate \in SampleRates, data \in Channels :
           /\ sourceRate' = rate
           /\ sourceData' = data
    /\ UNCHANGED << envVars, logVars, wavBuffer, now, produced, recs, isIOS, supportedMimeType,
                    chunkDuration, maxChunksFor10Seconds, mediaRecorder, recordingStream,
                    bufVars, isRecordingActive, isResetting, reqs, restartTimers,
                    opensPending, lastCall, lastOpen, session, firstChunk, logged,
                    playVars >>

\* the rest of convertToWav: resample, header, samples, Blob
WavConverted ==
    /\ sourceRate # 0
    /\ wavBuffer = << >>
    /\ \E numSamples \in NumSamples(Len(sourceData), sourceRate) :
           wavBuffer' = convertToWav(sourceData, numSamples)
    /\ UNCHANGED << envVars, logVars, sourceRate, sourceData, now, produced, recs, isIOS,
                    supportedMimeType, chunkDuration, maxChunksFor10Seconds, mediaRecorder,
                    recordingStream, bufVars, isRecordingActive, isResetting, reqs,
                    restartTimers, opensPending, lastCall, lastOpen, session, firstChunk,
                    logged, playVars >>

NextWav ==
    \/ WavDecoded
    \/ WavConverted

SpecWav == Init /\ [][NextWav]_vars

(***************************************************************************)
(* SpecPlay: the playback time over sessions opened one after the other at *)
(* different seek times, on a clock that only advances.                    *)
(***************************************************************************)
SeekTimes == {0, 5000, 30000}

InitPlay ==
    /\ ua \in BOOLEAN
    /\ supported \in SupportChoices
    /\ seekTime \in SeekTimes
    /\ now = StartMs
    /\ followLog = FALSE
    /\ ModuleInit

PlayOpen ==
    /\ session < MaxPlayOpens
    /\ opensPending = 0
    /\ \E ctxOk \in BOOLEAN : OpenBegin(ctxOk)

PlaySeek ==
    /\ opensPending = 0
    /\ \E time \in SeekTimes \ {seekTime} : SeekChange(time)

PlayTick ==
    /\ now < MaxPlayTime
    /\ ClockAdvance(TickMs)

PlaySet == \E time \in SeekTimes : setCurrentPlaybackTime(time)

NextPlay ==
    \/ PlayOpen
    \/ Decoded
    \/ PlaySeek
    \/ PlayTick
    \/ PlaySet

SpecPlay == InitPlay /\ [][NextPlay]_vars

(***************************************************************************)
(* SpecSessionLog: sessions opened one after the other and a snapshot      *)
(* request, with the handlers' error entries followed in the diagnostic    *)
(* log.  The log holds the entries of earlier logDebug calls when the      *)
(* first session is opened: none, or one fewer than its capacity.  The     *)
(* browser offers Ogg/Opus only, which a desktop records and iOS does not. *)
(***************************************************************************)
InitSessionLog ==
    /\ ua \in BOOLEAN
    /\ supported = {"audio/ogg; codecs=opus"}
    /\ seekTime = 0
    /\ now = 0
    /\ followLog = TRUE
    /\ ModuleInit

\* logDebug calls before the first initializeAudio call
EarlierLogDebug ==
    /\ lastOpen = "none"
    /\ lastCall = "none"
    /\ LogDebug

\* a call that failed for want of a MIME type is not repeated
SessionLogOpen ==
    /\ session < MaxSessionLogOpens
    /\ opensPending = 0
    /\ lastOpen # "CapabilityError"
    /\ lastOpen = "none" /\ lastCall = "none"
           => logCalls \in {0, MAX_LOG_ENTRIES - 1}
    /\ \E ctxOk \in BOOLEAN : OpenBegin(ctxOk)

SessionLogChunk ==
    /\ produced < MaxSessionLogChunks
    /\ \E r \in 1..Len(recs) : DataAvailable(r, SmallChunk, chunkDuration, 0)

\* one request is accepted; a rejected call is not repeated
SessionLogRequest ==
    /\ lastOpen # "none"
    /\ IF StopOutcome = "Accepted" THEN reqs = << >> ELSE lastCall \in {"none", "Accepted"}
    /\ \E throws \in BOOLEAN : stopRecording(throws)

NextSessionLog ==
    \/ EarlierLogDebug
    \/ SessionLogOpen
    \/ Decoded
    \/ Started
    \/ SessionLogChunk
    \/ SessionLogRequest
    \/ Timeout
    \/ Restart
    \/ LongStopped

SpecSessionLog == InitSessionLog /\ [][NextSessionLog]_vars

(***************************************************************************)
(* SpecEmpty: one session whose recorder also delivers empty blobs, a      *)
(* timeslice or a pause longer than the window after the last callback.    *)
(***************************************************************************)
EmptySteps == {chunkDuration, GapMs}

EmptyChunk ==
    /\ now <= MaxEmptyTime
    /\ \E r \in 1..Len(recs), sz \in {0, SmallChunk}, dt \in EmptySteps :
           /\ sz > 0 => produced < MaxEmptyChunks
           /\ DataAvailable(r, sz, dt, 0)

NextEmpty ==
    \/ BufOpen
    \/ BufDecoded
    \/ Started
    \/ EmptyChunk
    \/ BufRequest
    \/ Timeout
    \/ LongStopped

SpecEmpty == Init /\ [][NextEmpty]_vars

(***************************************************************************)
(* Properties                                                              *)
(***************************************************************************)
Settled(q) == reqs[q].status # "pending"

Recording == mediaRecorder # 0 /\ recs[mediaRecorder].state = "recording"

\* a stopRecording call, whatever mediaRecorder.stop() does
StopRecordingCall == \E throws \in BOOLEAN : stopRecording(throws)

\* C1: after eviction every chunk of the rolling buffer is at most WINDOW_MS
\* older than the newest one, and the buffer holds at most
\* maxChunksFor10Seconds chunks.
C1_WindowBounded ==
    /\ \A i \in 1..Len(lastTenSecondsBuffer) :
           Last(lastTenSecondsBuffer).timestamp - lastTenSecondsBuffer[i].timestamp
               <= WINDOW_MS
    /\ Len(lastTenSecondsBuffer) <= maxChunksFor10Seconds

\* chunks were evicted, the buffer is full, and its oldest chunk is exactly
\* WINDOW_MS older than the newest
C1_Witness ==
    /\ Len(lastTenSecondsBuffer) = maxChunksFor10Seconds
    /\ lastTenSecondsBuffer[1].data.id > 1
    /\ Last(lastTenSecondsBuffer).timestamp - lastTenSecondsBuffer[1].timestamp
           = WINDOW_MS

\* Scenario A: 12 chunks were appended, one per second, the first at time 0
\* (under SpecWin no two chunks are more than a second apart)
ScenarioA == session = 1 /\ produced = 12 /\ now = 11000

Stamps(buffer) == [i \in 1..Len(buffer) |-> buffer[i].timestamp]

From2000 == [i \in 1..10 |-> 1000 * (i + 1)]

From1000 == [i \in 1..11 |-> 1000 * i]

\* C11 (as claimed): after Scenario A the rolling buffer holds exactly the 10
\* chunks timestamped 2000..11000.
C11_ScenarioA == ScenarioA => Stamps(lastTenSecondsBuffer) = From2000

\* C11 (amended): after Scenario A the rolling buffer holds the 10 chunks
\* timestamped 2000..11000 when maxChunksFor10Seconds is 10 (desktop), the
\* count cap having removed the chunk timestamped 1000; when it is 20 (iOS)
\* the chunk timestamped 1000 is exactly WINDOW_MS old and stays: the 11
\* chunks timestamped 1000..11000 remain.
C11_ScenarioAByCap ==
    ScenarioA =>
        /\ Stamps(lastTenSecondsBuffer) = IF maxChunksFor10Seconds = 10 THEN From2000
                                          ELSE From1000
        /\ Ids(MapData(lastTenSecondsBuffer))[Len(lastTenSecondsBuffer)] = 12

\* Scenario A on the desktop: chunks 3..12 remain
C11_Witness ==
    /\ ScenarioA
    /\ ~isIOS
    /\ Ids(MapData(lastTenSecondsBuffer)) = [i \in 1..10 |-> i + 2]

\* an initializeAudio call, whatever the audio context does
InitializeAudioCall == \E ctxOk \in BOOLEAN : OpenBegin(ctxOk)

\* C12 (as claimed): whatever its outcome, an initializeAudio call leaves no
\* capturer recording and the rolling buffer and the recorded chunks (whose
\* first entry is the header) empty.
C12_ClosesPriorFirst ==
    [][ InitializeAudioCall
        => /\ \A r \in 1..Len(recs') : recs'[r].state = "inactive"
           /\ lastTenSecondsBuffer' = << >>
           /\ recordedChunks' = << >> ]_vars

\* the chunks of list come from the capturer of the current session
OfCurrentSession(ids) == \A i \in 1..Len(ids) : recs[ids[i].rec].sess = session

\* C13 (as claimed): once a later session is open and its capturer set up, the
\* rolling buffer and the recorded chunks hold only chunks of that capturer.
C13_OnlyNewSession ==
    (session >= 2 /\ mediaRecorder # 0 /\ recs[mediaRecorder].sess = session) =>
        /\ OfCurrentSession(MapData(lastTenSecondsBuffer))
        /\ OfCurrentSession(recordedChunks)

\* the platform supports none of the candidates of its list
NoSupport ==
    LET list == IF ua THEN iosMimeTypes ELSE desktopMimeTypes
    IN  \A i \in 1..Len(list) : list[i] \notin supported

C15_FirstSupported ==
    lastOpen # "none" =>
        LET list == IF isIOS THEN iosMimeTypes ELSE desktopMimeTypes
            hits == {i \in 1..Len(list) : list[i] \in supported}
        IN  /\ isIOS = ua
            /\ (supportedMimeType = NoMime) <=> (hits = {})
            /\ hits # {} =>
                   \E i \in hits : /\ supportedMimeType = list[i]
                                   /\ \A j \in hits : i <= j
            /\ (isIOS /\ hits # {}) => Includes(supportedMimeType, "mp4")
            /\ (~isIOS /\ "audio/webm; codecs=opus" \in supported)
                   => supportedMimeType = "audio/webm; codecs=opus"

\* a later candidate was chosen although candidates of the other platform's
\* list are supported too
C15_Witness ==
    /\ lastOpen = "ok"
    /\ ~isIOS
    /\ supportedMimeType = "audio/ogg; codecs=opus"
    /\ "audio/mp4" \in supported

\* C16 (as claimed): no request resolves with an artifact above the 25 MB
\* limit, on any platform.
C16_NeverOversize ==
    \A q \in 1..Len(reqs) :
        reqs[q].status = "resolved" => SumSizes(reqs[q].blob) <= IOS_BLOB_LIMIT

\* a window of n entries whose blobs are all empty
EmptyWindow(n) ==
    [i \in 1..n |-> [timestamp |-> 0, data |-> [id |-> i, size |-> 0, rec |-> 1], size |-> 0]]

\* C17: processAudio throws 'Created audio blob is empty' for every window
\* whose repaired blob has no bytes, whatever the container and the platform,
\* and no request resolves with an artifact of zero bytes.
C17_NeverEmptyArtifact ==
    /\ [](\A q \in 1..Len(reqs) :
             reqs[q].status = "resolved" => SumSizes(reqs[q].blob) > 0)
    /\ \A n \in 1..2, mimeType \in Candidates, ios \in BOOLEAN :
           LET res == processAudio(EmptyWindow(n), MapData(EmptyWindow(n)), mimeType, ios)
           IN  ~res.ok /\ res.error = "Created audio blob is empty"

\* a request resolved after the stop flushed a final blob of zero bytes, which
\* the data callback kept out of the window
C17_Witness ==
    \E q \in 1..Len(reqs) :
        /\ reqs[q].status = "resolved"
        /\ reqs[q].via = "ack"
        /\ lastTenSecondsBuffer = reqs[q].atAccept
        /\ SumSizes(reqs[q].blob) = SmallChunk

\* the header-preserving repair applies to the request: WebM, or MP4 on iOS,
\* with a first recorded chunk
HeaderPreserving(req) ==
    /\ req.header # 0
    /\ \/ Includes(req.mimeType, "webm")
       \/ isIOS /\ Includes(req.mimeType, "mp4")

\* C18 (as claimed): a request resolves only with an artifact that a repair
\* strategy produced, and where the header-preserving repair does not apply
\* and the WAV re-encode fails no artifact is returned for its window.
C18_RejectsWhenRepairFails ==
    \A q \in 1..Len(reqs) :
        /\ reqs[q].status = "resolved" => HeaderPreserving(reqs[q])
        /\ Settled(q) =>
               \A wav \in {"null", "throws"} :
                   createProperAudioFileWithWav(reqs[q].used, reqs[q].chunksCopy,
                                                reqs[q].mimeType, isIOS, wav).strategy
                       # "fallback"

\* C19 (as claimed): when a capturer reports an error the coordinator stops
\* counting itself as capturing, every request in flight is rejected, and no
\* stopRecording call is accepted until initializeAudio is called again.
C19_ErrorFaults ==
    [][ Failed
        => /\ ~isRecordingActive'
           /\ \A q \in 1..Len(reqs) :
                  reqs[q].status = "pending" => reqs'[q].status = "rejected"
           /\ ~(Recording /\ isRecordingActive /\ ~isResetting)' ]_vars

\* C20: resetRecordingState is idempotent: in every state a second release
\* leaves what the first one left, and an initializeAudio call that finds the
\* capturer already inactive stops no recorder (queues no stop task) while it
\* empties the chunk lists.
C20_ResetIdempotent ==
    /\ [](LET once == resetRecordingState(CaptureState)
          IN  resetRecordingState(once) = once)
    /\ [][ (/\ InitializeAudioCall
            /\ lastOpen' # "CapabilityError"
            /\ mediaRecorder # 0 => recs[mediaRecorder].state = "inactive")
           => /\ recs' = recs
              /\ recordedChunks' = << >> /\ lastTenSecondsBuffer' = << >>
              /\ ~isRecordingActive' ]_vars

\* a session was opened after a snapshot request had stopped the capturer and
\* its stop task had been delivered: the release found the capturer inactive
C20_Witness ==
    /\ session = 2
    /\ Len(reqs) > 0
    /\ reqs[1].sess = 1
    /\ mediaRecorder = reqs[1].rec
    /\ recs[mediaRecorder].state = "inactive"
    /\ ~recs[mediaRecorder].stopQ

\* the number of entries the log keeps after n appends
Kept(n) == IF n > MAX_LOG_ENTRIES THEN MAX_LOG_ENTRIES ELSE n

\* C21: after any sequence of logDebug calls the log holds at most
\* MAX_LOG_ENTRIES entries, and they are the most recent ones in the order
\* they were appended (the oldest dropped first).
C21_BoundedRing ==
    /\ Len(debugLogs) <= MAX_LOG_ENTRIES
    /\ debugLogs = [i \in 1..Kept(logCalls) |-> logCalls - Kept(logCalls) + i]

\* the log is at capacity and its oldest entry has been dropped
C21_Witness ==
    /\ logCalls > MAX_LOG_ENTRIES
    /\ Len(debugLogs) = MAX_LOG_ENTRIES
    /\ debugLogs[1] = 2

\* initializeAudio resumes after the decode
InitializeAudioResume == \E decodeOk \in BOOLEAN : OpenFinish(decodeOk)

\* the step appended a log entry that carries the error
LoggedError(error) == \E i \in 1..Len(logged') : logged'[i].error = error

\* C22: every step that delivers an error to a caller of initializeAudio or
\* stopRecording (a failed open before or after the decode, a guard rejection,
\* a rejected request) also appends a log entry carrying that error; the code
\* logs before it throws or rejects.
C22_ErrorsLogged ==
    [][ /\ ((InitializeAudioCall \/ InitializeAudioResume)
             /\ lastOpen' \notin {"pending", "ok"})
            => LoggedError(lastOpen')
        /\ (StopRecordingCall /\ lastCall' # "Accepted")
            => LoggedError(GuardError(lastCall'))
        /\ \A q \in 1..Len(reqs') :
               ((q > Len(reqs) \/ reqs[q].status = "pending")
                /\ reqs'[q].status = "rejected")
               => LoggedError(reqs'[q].error) ]_vars

\* a request has just been rejected for its size on iOS, the error logged
C22_Witness ==
    \E q \in 1..Len(reqs) :
        /\ reqs[q].status = "rejected"
        /\ reqs[q].error = "Audio blob too large for iOS"
        /\ logged = ProcessingFailure(reqs[q].error)

\* C23 (as claimed): the capturers started in one session share the container
\* type and the chunk interval, and while the capturer of the current session
\* exists the negotiated values a restart would use (supportedMimeType and the
\* platform flag that selects the interval) are those it was started with.
C23_FormatFixedPerSession ==
    /\ \A r1, r2 \in 1..Len(recs) :
           recs[r1].sess = recs[r2].sess
           => /\ recs[r1].mime = recs[r2].mime
              /\ recs[r1].timeslice = recs[r2].timeslice
    /\ (mediaRecorder # 0 /\ recs[mediaRecorder].sess = session)
       => /\ supportedMimeType = recs[mediaRecorder].mime
          /\ (IF isIOS THEN IOS_CHUNK_MS ELSE DESKTOP_CHUNK_MS) = recs[mediaRecorder].timeslice

\* C24 (as claimed): handleStop, which processes the copy and arms the restart
\* timer, runs at most once for a request, and exactly once when the request
\* is settled and neither its stop timeout nor its stop listener is left.
C24_HandledOnce ==
    \A q \in 1..Len(reqs) :
        /\ reqs[q].runs <= 1
        /\ (Settled(q) /\ ~reqs[q].timer /\ ~reqs[q].listening) => reqs[q].runs = 1

\* the restart timer fires and its setupMediaRecorder call fails
RestartFails ==
    /\ RestartTimer
    /\ recordingStream # 0 /\ ~isResetting
    /\ supportedMimeType = NoMime

\* C25: a restart whose setupMediaRecorder fails appends a log entry with the
\* error and changes no request: what the caller of a resolved request
\* received stays as it was, and the timer still clears isResetting.
C25_RestartErrorLogged ==
    [][ RestartFails
        => /\ LoggedError("No supported MIME type available")
           /\ reqs' = reqs
           /\ lastCall' = lastCall
           /\ ~isResetting' ]_vars

\* a restart has just failed after a request was resolved
C25_Witness ==
    /\ logged = << ErrorEntry("Error setting up media recorder",
                              "No supported MIME type available") >>
    /\ \E q \in 1..Len(reqs) : reqs[q].status = "resolved" /\ reqs[q].runs >= 1

\* handleStop runs for request q in this step
HandleStopRuns(q) ==
    IF q <= Len(reqs) THEN reqs'[q].runs > reqs[q].runs ELSE reqs'[q].runs > 0

\* what lets handleStop run for q: its stop timeout fires, the stop event of
\* the recorder it stopped reaches its listener, or mediaRecorder.stop() threw
\* in the call that accepted it
StopSettled(q) ==
    IF q <= Len(reqs)
    THEN \/ reqs[q].timer /\ ~reqs'[q].timer /\ reqs[q].listening = reqs'[q].listening
         \/ /\ reqs[q].listening /\ ~reqs'[q].listening
            /\ recs[reqs[q].rec].stopQ /\ ~recs'[reqs[q].rec].stopQ
    ELSE StopRecordingCall /\ ~reqs'[q].timer /\ recs' = recs

\* C26: a request passes through its steps in order: handleStop (the repair)
\* runs for it only when its stop is acknowledged, times out or throws; its
\* promise is resolved only in a step in which the repair ran and finished;
\* a restart timer is armed only by a repair that resolved, and a capturer is
\* started after a snapshot only by such a timer when it fires.
C26_StepsInOrder ==
    /\ [](\A q \in 1..Len(reqs) :
             /\ (reqs[q].status = "pending" /\ reqs[q].timer /\ reqs[q].listening)
                => reqs[q].runs = 0
             /\ reqs[q].status = "resolved"
                => reqs[q].runs >= 1 /\ reqs[q].blob # << >>)
    /\ [][ /\ \A q \in 1..Len(reqs') :
                 /\ HandleStopRuns(q) => StopSettled(q)
                 /\ ((q > Len(reqs) \/ reqs[q].status = "pending")
                     /\ reqs'[q].status = "resolved")
                    => HandleStopRuns(q)
           /\ restartTimers' > restartTimers
              => \E q \in 1..Len(reqs') :
                     HandleStopRuns(q) /\ reqs'[q].status = "resolved"
           /\ (Len(recs') > Len(recs) /\ ~InitializeAudioResume)
              => /\ restartTimers > 0 /\ restartTimers' = restartTimers - 1
                 /\ \E q \in 1..Len(reqs) :
                        reqs[q].status = "resolved" /\ reqs[q].runs >= 1 ]_vars

\* a capturer has been started by the restart timer of a resolved request
C26_Witness ==
    /\ Len(recs) >= 2
    /\ recs[Len(recs)].sess = recs[1].sess
    /\ \E q \in 1..Len(reqs) : reqs[q].status = "resolved" /\ reqs[q].rec = 1

\* C27 (as claimed): the rolling buffer is a contiguous suffix, in arrival
\* order, of the chunks appended since the buffer was last emptied: its chunk
\* numbers are consecutive and, unless it is empty, end with the newest chunk.
C27_ContiguousSuffix ==
    /\ \A i \in 1..(Len(lastTenSecondsBuffer) - 1) :
           lastTenSecondsBuffer[i + 1].data.id = lastTenSecondsBuffer[i].data.id + 1
    /\ lastTenSecondsBuffer # << >> => Last(lastTenSecondsBuffer).data.id = produced

\* an initializeAudio call is rejected in this step because the audio context
\* cannot be created or resumed, or because the decode failed
OpenRejected ==
    \/ InitializeAudioCall /\ lastOpen' = "PlatformAudioError"
    \/ InitializeAudioResume /\ lastOpen' = "DecodeError"

\* C28 (as claimed): when initializeAudio is rejected for the audio context or
\* the decode, no capturer is recording, the rolling buffer and the recorded
\* chunks (the header cache) are empty, and a stopRecording call would be
\* rejected.
C28_FailedOpenLeavesIdle ==
    [][ OpenRejected
        => /\ \A r \in 1..Len(recs') : recs'[r].state # "recording"
           /\ lastTenSecondsBuffer' = << >>
           /\ recordedChunks' = << >>
           /\ StopOutcome' # "Accepted" ]_vars

\* C29: every capturer is started with a timeslice of 500 ms on iOS and of
\* 1000 ms otherwise, and while a capturer records maxChunksFor10Seconds is
\* ceil(WINDOW_MS / chunkDuration) (20 and 10), so that
\* maxChunksFor10Seconds * chunkDuration = WINDOW_MS.
C29_IntervalAndCount ==
    /\ \A r \in 1..Len(recs) :
           recs[r].timeslice = (IF ua THEN IOS_CHUNK_MS ELSE DESKTOP_CHUNK_MS)
    /\ Recording
       => /\ chunkDuration = recs[mediaRecorder].timeslice
          /\ maxChunksFor10Seconds = CeilDiv(WINDOW_MS, chunkDuration)
          /\ maxChunksFor10Seconds = (IF ua THEN 20 ELSE 10)
          /\ maxChunksFor10Seconds * chunkDuration = WINDOW_MS

\* a capturer records on a desktop platform: 1000 ms and 10 chunks, not the
\* values the module starts with
C29_Witness ==
    /\ Recording
    /\ ~ua
    /\ recs[mediaRecorder].timeslice = DESKTOP_CHUNK_MS
    /\ maxChunksFor10Seconds = 10

\* the identifiers a capturer of the re-encoding revision can have
Candidates_006 ==
    {iosMimeTypes_006[i] : i \in 1..Len(iosMimeTypes_006)}
        \cup {desktopMimeTypes_006[i] : i \in 1..Len(desktopMimeTypes_006)}

\* what convertToWav may do
WavOutcomes == {"blob", "null", "throws"}

\* the header-preserving repair applies: WebM, or MP4 on iOS, with a header
HeaderApplies(allChunks, mimeType, ios) ==
    /\ Len(allChunks) > 0
    /\ Includes(mimeType, "webm") \/ (ios /\ Includes(mimeType, "mp4"))

\* the strategy part of C30 for one input
StrategyAsClaimed(res, allChunks, mimeType, ios, wav) ==
    /\ HeaderApplies(allChunks, mimeType, ios) => res.strategy = "header"
    /\ res.strategy = "header" => HeaderApplies(allChunks, mimeType, ios)
    /\ res.strategy = "wav"
       <=> (~HeaderApplies(allChunks, mimeType, ios) /\ ~ios /\ wav = "blob")

\* C30 (as claimed): for the windows of the requests made, every identifier,
\* either platform and whatever convertToWav does, the strategy is chosen as
\* stated, and the effective MIME type is 'audio/wav' exactly when the
\* re-encode produced the artifact and the capturer's own type otherwise.
C30_StrategyAndType ==
    \A q \in 1..Len(reqs), mimeType \in Candidates_006, ios \in BOOLEAN, wav \in WavOutcomes :
        \A allChunks \in {reqs[q].chunksCopy, << >>} :
            LET chunks == MapData(reqs[q].bufferCopy)
                res == createProperAudioFileWithWav(chunks, allChunks, mimeType, ios, wav)
            IN  /\ StrategyAsClaimed(res, allChunks, mimeType, ios, wav)
                /\ resultMimeType(res, mimeType) = "audio/wav" <=> res.strategy = "wav"
                /\ res.strategy # "wav" => resultMimeType(res, mimeType) = mimeType

\* C30 (amended): the strategy is chosen as stated; the effective MIME type is
\* 'audio/wav' when the re-encode produced the artifact and otherwise the
\* type of the Blob made with the capturer's type (its ASCII-lowercase form),
\* which is 'audio/wav' too when the capturer records 'audio/wav'.
C30_StrategyAndBlobType ==
    \A q \in 1..Len(reqs), mimeType \in Candidates_006, ios \in BOOLEAN, wav \in WavOutcomes :
        \A allChunks \in {reqs[q].chunksCopy, << >>} :
            LET chunks == MapData(reqs[q].bufferCopy)
                res == createProperAudioFileWithWav(chunks, allChunks, mimeType, ios, wav)
            IN  /\ StrategyAsClaimed(res, allChunks, mimeType, ios, wav)
                /\ res.strategy = "wav" => resultMimeType(res, mimeType) = "audio/wav"
                /\ res.strategy # "wav" => resultMimeType(res, mimeType) = BlobType(mimeType)
                /\ resultMimeType(res, mimeType) = "audio/wav"
                   => (res.strategy = "wav" \/ mimeType = "audio/wav")

\* a request was made whose window is re-encoded for Ogg on a desktop and
\* repaired with its cached header for WebM
C30_Witness ==
    \E q \in 1..Len(reqs) :
        LET chunks == MapData(reqs[q].bufferCopy)
        IN  /\ Len(reqs[q].chunksCopy) > 0
            /\ createProperAudioFileWithWav(chunks, reqs[q].chunksCopy, "audio/ogg",
                                            FALSE, "blob").strategy = "wav"
            /\ createProperAudioFileWithWav(chunks, reqs[q].chunksCopy, "audio/webm",
                                            TRUE, "blob").strategy = "header"

\* the sample count of the container in wavBuffer
WavSamples == (Len(wavBuffer) - 44) \div 2

\* the channel convertToWav wrote: the source resampled to WavSamples
WavInput == Resample(sourceData, WavSamples)

\* the fields of a PCM container of n samples, read little-endian
HeaderAsClaimed(buffer, n) ==
    /\ Len(buffer) = 44 + 2 * n
    /\ getUint32(buffer, 4) = 36 + 2 * n
    /\ getUint32(buffer, 16) = 16
    /\ getUint16(buffer, 20) = 1
    /\ getUint16(buffer, 22) = 1
    /\ getUint32(buffer, 24) = 16000
    /\ getUint32(buffer, 28) = 32000
    /\ getUint16(buffer, 32) = 2
    /\ getUint16(buffer, 34) = 16
    /\ getUint32(buffer, 40) = 2 * n

\* C31: for every sample count n the container createWavHeader(n, 16000, 1, 16)
\* builds is 44 + 2n bytes long and its header reads, little-endian, RIFF size
\* 36 + 2n, format chunk size 16, format tag 1, 1 channel, rate 16000, byte
\* rate 32000, block align 2, 16 bits and data length 2n; convertToWav writes
\* the n samples from byte offset 44 on, two bytes each.
C31_WavHeader ==
    /\ \A n \in 0..(2 * MaxSamples + 1) : HeaderAsClaimed(createWavHeader(n, 16000, 1, 16), n)
    /\ [](wavBuffer # << >> =>
             /\ HeaderAsClaimed(wavBuffer, WavSamples)
             /\ WavSamples \in NumSamples(Len(sourceData), sourceRate)
             /\ \A i \in 1..WavSamples :
                    getInt16(wavBuffer, 44 + 2 * (i - 1)) = pcmValue(WavInput[i]))

\* a container of more samples than were decoded, the last one negative
C31_Witness ==
    /\ wavBuffer # << >>
    /\ WavSamples > Len(sourceData)
    /\ WavSamples >= 2
    /\ getInt16(wavBuffer, Len(wavBuffer) - 2) < 0

\* C32: every sample is clamped to [-1, 1], scaled by 0x7FFF when it is not
\* negative and by 0x8000 when it is, and truncated toward zero: what is
\* written lies in -32768..32767, +1 (and more) gives 32767, -1 (and less)
\* gives -32768.
C32_PcmSample ==
    wavBuffer # << >> =>
        \A i \in 1..WavSamples :
            LET x == WavInput[i]
                c == IF x > SampleDen THEN SampleDen ELSE IF x < -SampleDen THEN -SampleDen ELSE x
                written == getInt16(wavBuffer, 44 + 2 * (i - 1))
            IN  /\ written \in -32768..32767
                /\ x >= SampleDen => written = 32767
                /\ x <= -SampleDen => written = -32768
                /\ c >= 0 => /\ written >= 0
                             /\ written * SampleDen <= c * 32767
                             /\ c * 32767 < (written + 1) * SampleDen
                /\ c < 0 => /\ written <= 0
                            /\ written * SampleDen >= c * 32768
                            /\ c * 32768 > (written - 1) * SampleDen

\* a container holding a sample below -1 written as -32768 and a sample
\* inside (-1, 0) whose scaled value is not an integer
C32_Witness ==
    /\ wavBuffer # << >>
    /\ \E i, j \in 1..WavSamples :
           /\ WavInput[i] < -SampleDen
           /\ getInt16(wavBuffer, 44 + 2 * (i - 1)) = -32768
           /\ WavInput[j] \in (1 - SampleDen)..(-1)
           /\ (WavInput[j] * 32768) % SampleDen # 0

\* the container a MIME type names: its subtype, "" for no type
Container(mimeType) ==
    CASE mimeType \in {"audio/mp4", "audio/mp4; codecs=\"mp4a.40.2\"", "video/mp4"} -> "mp4"
      [] mimeType \in {"audio/webm; codecs=opus", "audio/webm"} -> "webm"
      [] mimeType \in {"audio/ogg; codecs=opus"} -> "ogg"
      [] OTHER -> ""

\* C33: every resolved snapshot carries the filename 'audio.<ext>', <ext> being
\* the container its reported MIME type names (mp4, webm, ogg, mp3 or wav).
C33_FilenameMatchesType ==
    \A q \in 1..Len(reqs) :
        reqs[q].status = "resolved" =>
            /\ reqs[q].mimeType \in Candidates
            /\ Container(reqs[q].mimeType) \in {"mp4", "webm", "ogg", "mp3", "wav"}
            /\ reqs[q].filename = "audio." \o Container(reqs[q].mimeType)

\* a snapshot of an Ogg capture resolved on a desktop, where the platform
\* default would be webm
C33_Witness ==
    \E q \in 1..Len(reqs) :
        /\ reqs[q].status = "resolved"
        /\ ~isIOS
        /\ reqs[q].mimeType = "audio/ogg; codecs=opus"
        /\ reqs[q].filename = "audio.ogg"

\* initializeAudio resumes after the decode and resolves
OpenResolves == OpenFinish(TRUE) /\ lastOpen' = "ok"

\* a setCurrentPlaybackTime call
SetTimeCall == \E time \in SeekTimes : setCurrentPlaybackTime(time)

\* C34 (as claimed): getCurrentPlaybackTime returns 0 before any session has
\* been opened; an initializeAudio call that resolves sets it to its seekTime,
\* and every other step adds to it the clock time that passed.
C34_ElapsedSinceOpen ==
    /\ [](mediaRecorder = 0 => getCurrentPlaybackTime = 0)
    /\ [][OpenResolves => getCurrentPlaybackTime' = seekTime]_vars
    /\ [][~OpenResolves /\ mediaRecorder # 0
             => /\ getCurrentPlaybackTime' = getCurrentPlaybackTime + (now' - now)
                /\ getCurrentPlaybackTime' >= getCurrentPlaybackTime ]_vars

\* C34: getCurrentPlaybackTime returns 0 until a session has been opened or
\* setCurrentPlaybackTime has been called; an initializeAudio call that resolves
\* sets it to its seekTime, a setCurrentPlaybackTime(time) call sets it to time,
\* and every other step adds to it the clock time that passed.
C34_ElapsedSinceOpenOrSet ==
    /\ getCurrentPlaybackTime = 0
    /\ [][OpenResolves => getCurrentPlaybackTime' = seekTime]_vars
    /\ [][\A time \in SeekTimes :
             setCurrentPlaybackTime(time) => getCurrentPlaybackTime' = time]_vars
    /\ [][~OpenResolves /\ ~SetTimeCall
             => /\ getCurrentPlaybackTime' = getCurrentPlaybackTime + (now' - now)
                   \/ (audioStartTime = NoTime /\ getCurrentPlaybackTime' = 0)
                /\ getCurrentPlaybackTime' >= getCurrentPlaybackTime ]_vars

\* a second session, opened at 5000 ms, has been playing for two steps of the
\* clock
C34_Witness ==
    /\ session = 2
    /\ lastOpen = "ok"
    /\ seekTime = 5000
    /\ currentPlaybackTime = 5000
    /\ now = audioStartTime + 2 * TickMs
    /\ getCurrentPlaybackTime = 5000 + 2 * TickMs

\* the entries of debugLogs that a step evicts: those beyond the capacity
\* once the step's entries are appended
Evicted == 
    IF Len(debugLogs) + (logCalls' - logCalls) > MAX_LOG_ENTRIES
    THEN Len(debugLogs) + (logCalls' - logCalls) - MAX_LOG_ENTRIES
    ELSE 0

\* C35: no step of initializeAudio (resetRecordingState included), of
\* stopRecording or of their callbacks removes or rewrites an entry of the
\* diagnostic log: the entries stay, in order and in front of the new ones,
\* but for the oldest ones that logDebug evicts at capacity.
C35_LogSurvives ==
    [][ /\ Evicted <= Len(debugLogs)
        /\ Len(debugLogs') = Len(debugLogs) + (logCalls' - logCalls) - Evicted
        /\ \A i \in (Evicted + 1)..Len(debugLogs) : debugLogs'[i - Evicted] = debugLogs[i]
        /\ \A i \in 1..(logCalls' - logCalls) :
               debugLogs'[Len(debugLogs') - (logCalls' - logCalls) + i] = logCalls + i ]_vars

\* a second session was opened over a running one and a snapshot requested,
\* the handlers' entries having pushed the log beyond its capacity
C35_Witness ==
    /\ session = 2
    /\ reqs # << >>
    /\ logCalls > MaxLogCalls
    /\ Len(debugLogs) = MAX_LOG_ENTRIES
    /\ debugLogs[1] = logCalls - MAX_LOG_ENTRIES + 1

\* a stopRecording call that a guard rejects
GuardRejects == StopRecordingCall /\ lastCall' # "Accepted"

\* C36: a stopRecording call rejected by a guard (recorder not active, reset in
\* progress, empty buffer) leaves isResetting and isRecordingActive as they
\* were, stops no recorder, arms no timer and touches neither the rolling
\* buffer nor recordedChunks.
C36_RejectionChangesNothing ==
    [][ GuardRejects
        => /\ isResetting' = isResetting
           /\ isRecordingActive' = isRecordingActive
           /\ recs' = recs
           /\ mediaRecorder' = mediaRecorder
           /\ reqs' = reqs
           /\ restartTimers' = restartTimers
           /\ lastTenSecondsBuffer' = lastTenSecondsBuffer
           /\ recordedChunks' = recordedChunks ]_vars

\* a call was rejected as busy: the recorder of a second session records while
\* the request accepted in the first one is still pending
C36_Witness ==
    /\ lastCall = "Busy"
    /\ isResetting
    /\ isRecordingActive
    /\ Recording
    /\ session = 2
    /\ \E q \in 1..Len(reqs) : reqs[q].status = "pending"

\* C37: once an accepted stopRecording call has settled, whichever way (its
\* artifact resolved, processAudio failed, stop() threw, the stop timeout
\* fired), isResetting is cleared at some later point.
C37_BusyFlagCleared ==
    \A q \in 1..MaxLiveRequests :
        (q <= Len(reqs) /\ Settled(q)) ~> ~isResetting

\* the request was resolved by the stop timeout, the restart timer has fired
\* and cleared isResetting, and the recorder it set up records
C37_Witness ==
    /\ Len(reqs) = 1
    /\ reqs[1].status = "resolved"
    /\ reqs[1].via = "timeout"
    /\ restartTimers = 0
    /\ ~isResetting
    /\ mediaRecorder = 2
    /\ Recording

\* C38 (as claimed): in an artifact built by the header-preserving repair every
\* chunk comes from the recorder that produced the header chunk in front of it.
C38_OneCapturerPerArtifact ==
    \A q \in 1..Len(reqs) :
        (reqs[q].status = "resolved" /\ HeaderPreserving(reqs[q])) =>
            \A i \in 1..Len(reqs[q].blob) : reqs[q].blob[i].rec = reqs[q].blob[1].rec

\* a data callback, or the final one of a stop task, whose blob is empty
EmptyCallback ==
    \E r \in 1..Len(recs), dt \in EmptySteps \cup {0} :
        DataAvailable(r, 0, dt, 0) \/ StopTask(r, 0, dt, 0)

\* C39: a data callback with an empty blob leaves the rolling buffer and
\* recordedChunks as they are, evicts nothing, and no empty blob is ever held
\* in either list, recordedChunks[0] included.
C39_EmptyBlobIgnored ==
    /\ [](\A i \in 1..Len(recordedChunks) : recordedChunks[i].size > 0)
    /\ [](\A i \in 1..Len(lastTenSecondsBuffer) : lastTenSecondsBuffer[i].size > 0)
    /\ [][EmptyCallback => /\ recordedChunks' = recordedChunks
                           /\ lastTenSecondsBuffer' = lastTenSecondsBuffer
                           /\ firstChunk' = firstChunk]_vars

\* an empty blob arrived when the one chunk of the buffer had left the
\* window, and the chunk is still there
C39_Witness ==
    /\ Len(lastTenSecondsBuffer) = 1
    /\ produced = 1
    /\ now - lastTenSecondsBuffer[1].timestamp > WINDOW_MS
    /\ recordedChunks[1].id = 1

\* C40: recordedChunks holds at most 1000 chunks after a data callback; the
\* callback that would make it 1001 leaves the 500 most recent ones, the new
\* chunk last, in order; any other callback with data appends its chunk.
C40_RecordedChunksTrimmed ==
    /\ [](Len(recordedChunks) <= RECORDED_MAX)
    /\ [][ produced' = produced + 1
           => IF Len(recordedChunks) = RECORDED_MAX
              THEN /\ Len(recordedChunks') = RECORDED_KEEP
                   /\ Last(recordedChunks').id = produced'
                   /\ \A i \in 1..(RECORDED_KEEP - 1) :
                          recordedChunks'[i]
                              = recordedChunks[RECORDED_MAX - RECORDED_KEEP + 1 + i]
              ELSE /\ Len(recordedChunks') = Len(recordedChunks) + 1
                   /\ Last(recordedChunks').id = produced'
                   /\ SubSeq(recordedChunks', 1, Len(recordedChunks)) = recordedChunks ]_vars

\* the 1001st chunk has arrived: the list was cut down to chunks 502..1001
C40_Witness ==
    /\ produced = RECORDED_MAX + 1
    /\ Len(recordedChunks) = RECORDED_KEEP
    /\ recordedChunks[1].id = RECORDED_MAX - RECORDED_KEEP + 2
    /\ Last(recordedChunks).id = RECORDED_MAX + 1

\* C2 (as claimed): no session has two snapshot requests in flight.
InFlight(s) == {q \in 1..Len(reqs) : reqs[q].status = "pending" /\ reqs[q].sess = s}

C2_OneInFlight == \A s \in 1..session : Cardinality(InFlight(s)) <= 1

\* C3 (as claimed): a stopRecording call made while a request of the session
\* is still in flight is rejected with the busy rejection.
C3_SecondIsBusy ==
    [][ (StopRecordingCall /\ \E q \in 1..Len(reqs) :
                                  reqs[q].status = "pending" /\ reqs[q].sess = session)
        => lastCall' = "Busy" ]_vars

\* C4 (as claimed): once a snapshot of the running session has resolved and
\* nothing is left to run (no timer armed, no event queued, no open in
\* progress), a capturer is recording again.
Quiescent ==
    /\ restartTimers = 0
    /\ opensPending = 0
    /\ \A q \in 1..Len(reqs) : ~reqs[q].timer
    /\ \A r \in 1..Len(recs) : ~recs[r].startQ /\ ~recs[r].stopQ

C4_RestartedAfterSnapshot ==
    (/\ Quiescent
     /\ \E q \in 1..Len(reqs) : reqs[q].status = "resolved" /\ reqs[q].sess = session)
    => Recording

\* C5: every accepted request settles once timers fire, whether or not the
\* stop is ever acknowledged; a request settled by the stop timeout was
\* repaired from the buffer as it was when the request was accepted.
C5_EventuallySettles ==
    /\ \A q \in 1..MaxLiveRequests :
           (q <= Len(reqs) /\ reqs[q].status = "pending")
               ~> (q <= Len(reqs) /\ reqs[q].status # "pending")
    /\ [](\A q \in 1..Len(reqs) :
              reqs[q].via = "timeout" => reqs[q].used = MapData(reqs[q].atAccept))

\* a request settled by the timeout while its stop is still unacknowledged
C5_Witness ==
    \E q \in 1..Len(reqs) :
        /\ reqs[q].via = "timeout"
        /\ reqs[q].status = "resolved"
        /\ reqs[q].listening
        /\ recs[reqs[q].rec].stopQ

\* C6 (as claimed): the header chunk handed to repair is the first chunk the
\* session produced.
C6_HeaderIsFirstChunk ==
    \A q \in 1..Len(reqs) : Settled(q) => reqs[q].header = reqs[q].first

\* C7 (as claimed): when a snapshot request is rejected, a capturer is
\* recording afterwards or its restart is armed.
C7_CaptureSurvivesRejection ==
    [][ (\E q \in 1..Len(reqs') :
             /\ reqs'[q].status = "rejected"
             /\ q > Len(reqs) \/ reqs[q].status = "pending")
        => (recs'[mediaRecorder'].state = "recording" \/ restartTimers' > 0) ]_vars

\* C8: the chunks handed to repair are those of the rolling buffer when the
\* request was accepted, whatever was appended or evicted since.
C8_SnapshotFixed ==
    \A q \in 1..Len(reqs) :
        Settled(q) => reqs[q].used = MapData(reqs[q].atAccept)

\* a request settled after the stop flushed a final chunk into the buffer
C8_Witness ==
    \E q \in 1..Len(reqs) :
        /\ reqs[q].status = "resolved"
        /\ reqs[q].via = "ack"
        /\ lastTenSecondsBuffer # reqs[q].atAccept
        /\ Len(reqs[q].used) > 0

\* C9 (as claimed): in a session that has captured no chunk, every
\* stopRecording call is rejected with the empty-buffer rejection.
C9_EmptyInEveryState ==
    [][ (StopRecordingCall /\ session > 0 /\ firstChunk = 0)
        => lastCall' = "Empty" ]_vars

\* C9 (amended): with an empty rolling buffer a stopRecording call is never
\* accepted and changes nothing; it is rejected with the empty-buffer
\* rejection when the capturer records, its start was acknowledged and no
\* reset is in progress, with the not-active rejection when the capturer is
\* not active, and with the busy rejection otherwise.
C9_EmptyWhenActive ==
    [][ (StopRecordingCall /\ lastTenSecondsBuffer = << >>)
        => /\ lastCall' = IF ~(Recording /\ isRecordingActive) THEN "NotActive"
                          ELSE IF isResetting THEN "Busy" ELSE "Empty"
           /\ UNCHANGED << reqs, recs, isResetting, isRecordingActive, restartTimers >> ]_vars

\* the empty-buffer rejection was given in a session without chunks
C9_Witness == lastCall = "Empty" /\ session > 0 /\ firstChunk = 0 /\ Recording

\* C10: header-preserving repair (WebM, or MP4 on iOS, with a cached header)
\* outputs the header first and exactly once, then the window's chunks in
\* buffer order: the window itself when it starts with the header, else the
\* header followed by the window.
C10_HeaderFirstOnce ==
    \A q \in 1..Len(reqs) :
        (Settled(q) /\ HeaderPreserving(reqs[q])) =>
            LET art == Ids(reqs[q].blob)
                window == Ids(reqs[q].used)
            IN  /\ art[1] = reqs[q].header
                /\ Cardinality({i \in 1..Len(art) : art[i] = reqs[q].header}) = 1
                /\ art = IF window[1] = reqs[q].header THEN window
                         ELSE << reqs[q].header >> \o window

\* Scenario D: the header was evicted, the window holds two later chunks
C10_Witness ==
    \E q \in 1..Len(reqs) :
        /\ reqs[q].status = "resolved"
        /\ HeaderPreserving(reqs[q])
        /\ Len(reqs[q].used) = 2
        /\ reqs[q].header < reqs[q].used[1].id
        /\ Ids(reqs[q].blob) = << reqs[q].header >> \o Ids(reqs[q].used)

====
